---- MODULE Spec2Model ----
(***************************************************************************)
(* Model of the MySQL Cluster Bridge (bridge/config.py, bridge/cluster.py, *)
(* bridge/primary.py, bridge/secondary.py).                                *)
(*                                                                         *)
(* The topology (ClusterConfig.secondaries), the persisted cluster.json,   *)
(* the generated docker-compose manifest and the report of the last        *)
(* operation are the state.  Every public operation of ClusterBridge is    *)
(* one action; the outcome of every external command it runs (systemctl,   *)
(* ssh, docker, docker-compose, mysqlsh, TCP probe) is drawn from a small  *)
(* set, and the commands it issued are logged, in order, in calls.         *)
(***************************************************************************)
EXTENDS Integers, Sequences, FiniteSets, TLC

VARIABLES
    secondaries,       \* ClusterConfig.secondaries (ordered list of NodeConfig)
    saved,             \* secondaries list of the persisted cluster.json
    compose,           \* docker-compose-secondaries.yml: exists + services
    use_custom_image,  \* ClusterConfig.use_custom_image
    before,            \* secondaries at the entry of the last operation
    calls,             \* external commands issued by the last operation, in order
    env,               \* outcomes the environment gave to the last operation
    results            \* value returned by the last operation

vars == <<secondaries, saved, compose, use_custom_image, before, calls, env, results>>

(***************************************************************************)
(* Bounds                                                                  *)
(***************************************************************************)
MaxSecondaries == 3     \* largest number of secondaries the model grows to
MaxRemoteHosts == 2     \* longest remote_hosts list given to create_default_config
MaxCommands == 3        \* commands started in a run of concurrent commands

(***************************************************************************)
(* Program constants                                                       *)
(***************************************************************************)
PrimaryId == 1          \* node_id of the primary
FirstSecondaryId == 2   \* len(self.secondaries) + 2
DockerBasePort == 33060 \* port=33060 + node_id
MySQLPort == 3306       \* port of the primary and of remote machines
PollAttempts == 30      \* for _ in range(30)

\* NodeType / NodeRole enum members
LOCAL_SYSTEMCTL == "LOCAL_SYSTEMCTL"
LOCAL_BINARY == "LOCAL_BINARY"
REMOTE_MACHINE == "REMOTE_MACHINE"
DOCKER_CONTAINER == "DOCKER_CONTAINER"
PRIMARY == "PRIMARY"
SECONDARY == "SECONDARY"
None == "None"

\* the remote hosts an operator may name: (host, ssh_user)
RemoteHosts ==
    { [host |-> "10.0.0.1", ssh_user |-> "mysql"],
      [host |-> "10.0.0.2", ssh_user |-> None] }

(***************************************************************************)
(* config.py                                                               *)
(***************************************************************************)
\* NodeType(...).value / NodeRole(...).value
EnumValue(member) ==
    CASE member = LOCAL_SYSTEMCTL -> "local_systemctl"
      [] member = LOCAL_BINARY -> "local_binary"
      [] member = REMOTE_MACHINE -> "remote_machine"
      [] member = DOCKER_CONTAINER -> "docker_container"
      [] member = PRIMARY -> "primary"
      [] member = SECONDARY -> "secondary"

\* NodeType(value) / NodeRole(value)
EnumMember(value) ==
    CASE value = "local_systemctl" -> LOCAL_SYSTEMCTL
      [] value = "local_binary" -> LOCAL_BINARY
      [] value = "remote_machine" -> REMOTE_MACHINE
      [] value = "docker_container" -> DOCKER_CONTAINER
      [] value = "primary" -> PRIMARY
      [] value = "secondary" -> SECONDARY

\* NodeConfig.to_dict
to_dict(node) ==
    [node_id |-> node.node_id, role |-> EnumValue(node.role),
     node_type |-> EnumValue(node.node_type), host |-> node.host,
     port |-> node.port, ssh_user |-> node.ssh_user]

\* NodeConfig.from_dict
from_dict(data) ==
    [node_id |-> data.node_id, role |-> EnumMember(data.role),
     node_type |-> EnumMember(data.node_type), host |-> data.host,
     port |-> data.port, ssh_user |-> data.ssh_user]

\* the primary NodeConfig built by create_default_config
primary ==
    [node_id |-> PrimaryId, role |-> PRIMARY, node_type |-> LOCAL_SYSTEMCTL,
     host |-> "127.0.0.1", port |-> MySQLPort, ssh_user |-> None]

\* ClusterConfig.get_all_nodes
get_all_nodes(secs) == <<primary>> \o secs

IsDocker(node) == node.node_type = DOCKER_CONTAINER
IsRemote(node) == node.node_type = REMOTE_MACHINE

\* SecondaryNodeManager.get_docker_nodes / get_remote_nodes
get_docker_nodes(secs) == SelectSeq(secs, IsDocker)
get_remote_nodes(secs) == SelectSeq(secs, IsRemote)

\* the id ClusterConfig.add_secondary gives to the node it creates
NextNodeId(secs) == Len(secs) + FirstSecondaryId

\* the NodeConfig that ClusterConfig.add_secondary creates
NewSecondary(secs, host, ssh_user, node_type) ==
    LET node_id == NextNodeId(secs)
        t == IF node_type = None
             THEN (IF host # None /\ ssh_user # None
                   THEN REMOTE_MACHINE ELSE DOCKER_CONTAINER)
             ELSE node_type
    IN IF t = DOCKER_CONTAINER
       THEN [node_id |-> node_id, role |-> SECONDARY,
             node_type |-> DOCKER_CONTAINER, host |-> "127.0.0.1",
             port |-> DockerBasePort + node_id, ssh_user |-> None]
       ELSE [node_id |-> node_id, role |-> SECONDARY,
             node_type |-> REMOTE_MACHINE,
             host |-> IF host # None THEN host ELSE "127.0.0.1",
             port |-> MySQLPort, ssh_user |-> ssh_user]

\* ClusterConfig.add_secondary: the list after the append
add_secondary(secs, host, ssh_user, node_type) ==
    Append(secs, NewSecondary(secs, host, ssh_user, node_type))

\* ClusterConfig.add_multiple_secondaries
RECURSIVE AddMultipleFrom(_, _, _, _)
AddMultipleFrom(secs, i, count, remote_hosts) ==
    IF i >= count THEN secs
    ELSE IF i < Len(remote_hosts)
         THEN AddMultipleFrom(
                  add_secondary(secs, remote_hosts[i + 1].host,
                                remote_hosts[i + 1].ssh_user, REMOTE_MACHINE),
                  i + 1, count, remote_hosts)
         ELSE AddMultipleFrom(
                  add_secondary(secs, None, None, DOCKER_CONTAINER),
                  i + 1, count, remote_hosts)

add_multiple_secondaries(secs, count, remote_hosts) ==
    AddMultipleFrom(secs, 0, count, remote_hosts)

\* create_default_config: the secondaries of the configuration it returns
create_default_config(num_secondaries, remote_hosts) ==
    add_multiple_secondaries(<<>>, num_secondaries, remote_hosts)

\* ClusterConfig.save: the secondaries entry of the document written
save(secs) == [i \in 1..Len(secs) |-> to_dict(secs[i])]

\* ClusterConfig.load: the secondaries of the configuration read back
load(doc) == [i \in 1..Len(doc) |-> from_dict(doc[i])]

\* a remove that drops every element equal to x
RECURSIVE ListRemoveAll(_, _)
ListRemoveAll(s, x) ==
    IF s = <<>> THEN <<>>
    ELSE IF Head(s) = x THEN ListRemoveAll(Tail(s), x)
         ELSE <<Head(s)>> \o ListRemoveAll(Tail(s), x)

\* list.remove(x): drop the first element equal to x
RECURSIVE ListRemove(_, _)
ListRemove(s, x) ==
    IF s = <<>> THEN <<>>
    ELSE IF Head(s) = x THEN Tail(s)
         ELSE <<Head(s)>> \o ListRemove(Tail(s), x)

(***************************************************************************)
(* External commands                                                       *)
(***************************************************************************)
\* no operation has been invoked since the caller took the last report
NoReport == [op |-> "none", success |-> TRUE, message |-> ""]
Idle == results.op = "none"

\* one external command issued: what, against which node_id (0: none), outcome
Call(c, n, ok) == [call |-> c, node |-> n, ok |-> ok]

\* outcomes of the docker commands of start_docker_containers
\* (the outcome of a command that is not run is fixed, so that every
\* outcome names one run)
DockerOutcomes(uci) ==
    { o \in [image_exists : BOOLEAN, build_ok : BOOLEAN,
             up : {"ok", "nonzero", "timeout"}] :
        /\ ~uci => o.image_exists
        /\ o.image_exists => o.build_ok
        /\ ~o.build_ok => o.up = "ok" }

\* the poll iteration at which a started node first answers
\* (PollAttempts + 1: not within the loop)
ReadyAts == {1, PollAttempts, PollAttempts + 1}

(***************************************************************************)
(* secondary.py: docker containers                                         *)
(***************************************************************************)
\* the services of the manifest: one per container_name (mysql-secondary-<id-1>)
Services(docker_nodes) == {docker_nodes[i].node_id : i \in 1..Len(docker_nodes)}

\* SecondaryNodeManager.generate_docker_compose: the manifest on disk afterwards
generate_docker_compose(secs, comp) ==
    IF get_docker_nodes(secs) = <<>>
    THEN comp
    ELSE [exists |-> TRUE, services |-> Services(get_docker_nodes(secs))]

\* SecondaryNodeManager.start_docker_containers
start_docker_containers(secs, comp, uci, o) ==
    LET docker_nodes == get_docker_nodes(secs)
        inspect == IF uci THEN <<Call("image_inspect", 0, o.image_exists)>> ELSE <<>>
        build == IF uci /\ ~o.image_exists
                 THEN <<Call("image_build", 0, o.build_ok)>> ELSE <<>>
        up == <<Call("compose_up", 0, o.up = "ok")>>
    IN IF docker_nodes = <<>>
       THEN [success |-> TRUE, message |-> "No Docker secondary nodes to start",
             compose |-> comp, calls |-> <<>>]
       ELSE IF uci /\ ~o.image_exists /\ ~o.build_ok
       THEN [success |-> FALSE, message |-> "Docker image not available",
             compose |-> comp, calls |-> inspect \o build]
       ELSE [success |-> o.up = "ok",
             message |-> CASE o.up = "ok" -> "Started Docker containers"
                           [] o.up = "nonzero" -> "Failed to start containers"
                           [] o.up = "timeout" -> "Timeout starting Docker containers",
             compose |-> generate_docker_compose(secs, comp),
             calls |-> inspect \o build \o up]

\* scale_docker_nodes, growing: add_secondary(node_type=DOCKER_CONTAINER) n times
RECURSIVE AddDockerNodes(_, _)
AddDockerNodes(secs, n) ==
    IF n <= 0 THEN secs
    ELSE AddDockerNodes(add_secondary(secs, None, None, DOCKER_CONTAINER), n - 1)

\* docker_nodes.pop(): the node popped
PopNode(docker_nodes) == docker_nodes[Len(docker_nodes)]

\* docker_nodes.pop(): the list left
PopRest(docker_nodes) == SubSeq(docker_nodes, 1, Len(docker_nodes) - 1)

\* a shrinking loop that pops the last secondary of the whole topology
RECURSIVE RemoveLastSecondaries(_, _, _)
RemoveLastSecondaries(secs, docker_nodes, n) ==
    IF n <= 0 THEN secs
    ELSE RemoveLastSecondaries(ListRemove(secs, PopNode(secs)),
                               PopRest(docker_nodes), n - 1)

\* scale_docker_nodes, shrinking: n times, pop the last docker node and
\* remove it from config.secondaries
RECURSIVE RemoveDockerNodes(_, _, _)
RemoveDockerNodes(secs, docker_nodes, n) ==
    IF n <= 0 THEN secs
    ELSE RemoveDockerNodes(ListRemove(secs, PopNode(docker_nodes)),
                           PopRest(docker_nodes), n - 1)

\* a scale_docker_nodes without the "Already have" shortcut
scale_docker_nodes_NoShortcut(secs, comp, uci, target_count, o) ==
    LET current_docker_nodes == Len(get_docker_nodes(secs))
        secs2 == IF target_count > current_docker_nodes
                 THEN AddDockerNodes(secs, target_count - current_docker_nodes)
                 ELSE RemoveDockerNodes(secs, get_docker_nodes(secs),
                                        current_docker_nodes - target_count)
        st == start_docker_containers(secs2, generate_docker_compose(secs2, comp),
                                      uci, o)
    IN [success |-> st.success,
        message |-> IF st.success THEN "Scaled" ELSE st.message,
        secondaries |-> secs2, compose |-> st.compose, calls |-> st.calls]

\* SecondaryNodeManager.scale_docker_nodes
scale_docker_nodes(secs, comp, uci, target_count, o) ==
    LET current_docker_nodes == Len(get_docker_nodes(secs))
        secs2 == IF target_count > current_docker_nodes
                 THEN AddDockerNodes(secs, target_count - current_docker_nodes)
                 ELSE RemoveDockerNodes(secs, get_docker_nodes(secs),
                                        current_docker_nodes - target_count)
        st == start_docker_containers(secs2, generate_docker_compose(secs2, comp),
                                      uci, o)
    IN IF target_count = current_docker_nodes
       THEN [success |-> TRUE, message |-> "Already have", secondaries |-> secs,
             compose |-> comp, calls |-> <<>>]
       ELSE [success |-> st.success,
             message |-> IF st.success THEN "Scaled" ELSE st.message,
             secondaries |-> secs2, compose |-> st.compose, calls |-> st.calls]

(***************************************************************************)
(* cluster.py: scale                                                       *)
(***************************************************************************)
\* a docker_target that forgets to subtract the remote secondaries
DockerTargetIgnoringRemote(target_secondaries, remote_count) ==
    IF target_secondaries < 0 THEN 0 ELSE target_secondaries

\* docker_target of ClusterBridge.scale
DockerTarget(target_secondaries, remote_count) ==
    IF target_secondaries - remote_count < 0 THEN 0
    ELSE target_secondaries - remote_count

\* the loop "Adding new nodes to cluster" of ClusterBridge.scale, from
\* position i on: probe, configure, add
RECURSIVE ScaleAddNodes(_, _, _, _, _)
ScaleAddNodes(secs, i, reachable, conf, add) ==
    IF i > Len(secs) THEN <<>>
    ELSE LET id == secs[i].node_id
             probe == <<Call("is_reachable", id, i \in reachable)>>
             step == IF i \notin reachable THEN probe
                     ELSE IF ~conf[i]
                          THEN probe \o <<Call("configure_instance", id, FALSE)>>
                          ELSE probe \o <<Call("configure_instance", id, TRUE),
                                          Call("add_instance", id, add[i])>>
         IN step \o ScaleAddNodes(secs, i + 1, reachable, conf, add)

\* the condition under which scale runs that loop
ScaleAddsToCluster(success, docker_target, secs) ==
    success /\ docker_target > Len(get_docker_nodes(secs))

\* the sets of positions of the topology that answer a TCP probe
ReachableSets(n) == {{}, {n}, 1..n}

\* the targets an operator may ask for
Targets == -1..MaxSecondaries

\* a scale that reports the requested count as the final count
scale_ReportsTarget(target_secondaries) ==
    /\ Idle
    /\ \E o \in DockerOutcomes(use_custom_image) :
      LET remote_count == Len(get_remote_nodes(secondaries))
          docker_target == DockerTarget(target_secondaries, remote_count)
          r == scale_docker_nodes(secondaries, compose, use_custom_image,
                                  docker_target, o)
          adds == ScaleAddsToCluster(r.success, docker_target, r.secondaries)
          n == Len(r.secondaries)
      IN \E reachable \in ReachableSets(n) :
         \E conf \in IF adds THEN [1..n -> BOOLEAN] ELSE {<<>>} :
         \E add \in IF adds THEN [1..n -> BOOLEAN] ELSE {<<>>} :
           /\ secondaries' = r.secondaries
           /\ compose' = r.compose
           /\ calls' = r.calls \o
                       (IF adds
                        THEN ScaleAddNodes(r.secondaries, 1, reachable, conf, add)
                        ELSE <<>>)
           /\ results' = [op |-> "scale", success |-> r.success,
                          message |-> r.message,
                          previous_count |-> Len(secondaries),
                          target_count |-> target_secondaries,
                          current_count |-> target_secondaries]
           /\ env' = [reachable |-> reachable]
           /\ before' = secondaries
           /\ UNCHANGED <<saved, use_custom_image>>

\* a scale that puts the secondaries back when the containers did not start
scale_RollsBack(target_secondaries) ==
    /\ Idle
    /\ \E o \in DockerOutcomes(use_custom_image) :
      LET remote_count == Len(get_remote_nodes(secondaries))
          docker_target == DockerTarget(target_secondaries, remote_count)
          r == scale_docker_nodes(secondaries, compose, use_custom_image,
                                  docker_target, o)
          adds == ScaleAddsToCluster(r.success, docker_target, r.secondaries)
          n == Len(r.secondaries)
      IN \E reachable \in ReachableSets(n) :
         \E conf \in IF adds THEN [1..n -> BOOLEAN] ELSE {<<>>} :
         \E add \in IF adds THEN [1..n -> BOOLEAN] ELSE {<<>>} :
           /\ secondaries' = IF r.success THEN r.secondaries ELSE secondaries
           /\ compose' = r.compose
           /\ calls' = r.calls \o
                       (IF adds
                        THEN ScaleAddNodes(r.secondaries, 1, reachable, conf, add)
                        ELSE <<>>)
           /\ results' = [op |-> "scale", success |-> r.success,
                          message |-> r.message,
                          previous_count |-> Len(secondaries),
                          target_count |-> target_secondaries,
                          current_count |-> IF r.success THEN Len(r.secondaries)
                                           ELSE Len(secondaries)]
           /\ env' = [reachable |-> reachable]
           /\ before' = secondaries
           /\ UNCHANGED <<saved, use_custom_image>>

\* ClusterBridge.scale
scale(target_secondaries) ==
    /\ Idle
    /\ \E o \in DockerOutcomes(use_custom_image) :
      LET remote_count == Len(get_remote_nodes(secondaries))
          docker_target == DockerTarget(target_secondaries, remote_count)
          r == scale_docker_nodes(secondaries, compose, use_custom_image,
                                  docker_target, o)
          adds == ScaleAddsToCluster(r.success, docker_target, r.secondaries)
          n == Len(r.secondaries)
      IN \E reachable \in ReachableSets(n) :
         \E conf \in IF adds THEN [1..n -> BOOLEAN] ELSE {<<>>} :
         \E add \in IF adds THEN [1..n -> BOOLEAN] ELSE {<<>>} :
           /\ secondaries' = r.secondaries
           /\ compose' = r.compose
           /\ calls' = r.calls \o
                       (IF adds
                        THEN ScaleAddNodes(r.secondaries, 1, reachable, conf, add)
                        ELSE <<>>)
           /\ results' = [op |-> "scale", success |-> r.success,
                          message |-> r.message,
                          previous_count |-> Len(secondaries),
                          target_count |-> target_secondaries,
                          current_count |-> Len(r.secondaries)]
           /\ env' = [reachable |-> reachable]
           /\ before' = secondaries
           /\ UNCHANGED <<saved, use_custom_image>>

(***************************************************************************)
(* secondary.py: remote machines                                           *)
(***************************************************************************)
\* outcomes of the commands of start_remote_node
RemoteStartOutcomes ==
    { o \in [ssh_ok : BOOLEAN, ready_at : ReadyAts] : ~o.ssh_ok => o.ready_at = 1 }

\* the probes of a readiness loop "for _ in range(30)" whose probe first
\* answers at iteration ready_at
RECURSIVE PollCalls(_, _, _, _)
PollCalls(probe, id, i, ready_at) ==
    IF i > PollAttempts THEN <<>>
    ELSE IF i = ready_at THEN <<Call(probe, id, TRUE)>>
         ELSE <<Call(probe, id, FALSE)>> \o PollCalls(probe, id, i + 1, ready_at)

\* whether that loop returns from inside (the node answered in time)
PollSucceeds(ready_at) == ready_at \in 1..PollAttempts

\* SecondaryNodeManager.start_remote_node
start_remote_node(node, o) ==
    IF node.ssh_user = None
    THEN [success |-> FALSE, message |-> "SSH user not configured", calls |-> <<>>]
    ELSE IF ~o.ssh_ok
    THEN [success |-> FALSE, message |-> "Failed to start MySQL",
          calls |-> <<Call("ssh_start", node.node_id, FALSE)>>]
    ELSE [success |-> PollSucceeds(o.ready_at),
          message |-> IF PollSucceeds(o.ready_at)
                      THEN "MySQL started successfully"
                      ELSE "MySQL started but not responding",
          calls |-> <<Call("ssh_start", node.node_id, TRUE)>> \o
                    PollCalls("is_reachable", node.node_id, 1, o.ready_at)]

\* SecondaryNodeManager.check_remote_node (the mysql --version query, which
\* only fills mysql_version, is left out)
check_remote_node(node, reachable, ssh_accessible, mysql_active) ==
    LET ssh == node.ssh_user # None
    IN [reachable |-> reachable,
        ssh_accessible |-> ssh /\ ssh_accessible,
        mysql_running |-> ssh /\ ssh_accessible /\ mysql_active,
        calls |-> <<Call("is_reachable", node.node_id, reachable)>> \o
                  (IF ssh THEN <<Call("ssh_echo", node.node_id, ssh_accessible)>>
                   ELSE <<>>) \o
                  (IF ssh /\ ssh_accessible
                   THEN <<Call("ssh_is_active", node.node_id, mysql_active)>>
                   ELSE <<>>)]

(***************************************************************************)
(* cluster.py: add_remote_secondary, remove_secondary                      *)
(***************************************************************************)
\* outcomes of the commands of add_remote_secondary against a node
AddRemoteOutcomes(node) ==
    LET ssh == node.ssh_user # None
        Default == [ssh_ok |-> TRUE, ready_at |-> 1]
    IN { o \in [reachable : BOOLEAN, ssh_accessible : BOOLEAN,
                mysql_active : BOOLEAN, start : RemoteStartOutcomes,
                configure : BOOLEAN, add : BOOLEAN] :
           LET running == ssh /\ o.ssh_accessible /\ o.mysql_active
               started == running \/ (ssh /\ o.start.ssh_ok
                                          /\ PollSucceeds(o.start.ready_at))
           IN /\ ~ssh => o.ssh_accessible
              /\ ~(ssh /\ o.ssh_accessible) => o.mysql_active
              /\ ~(o.reachable /\ ssh /\ ~running) => o.start = Default
              /\ ~(o.reachable /\ started) => o.configure
              /\ ~(o.reachable /\ started /\ o.configure) => o.add }

\* ClusterBridge.add_remote_secondary: what it returns, what it ran, and
\* whether it reached self.save()
AddRemoteRun(node, o) ==
    LET chk == check_remote_node(node, o.reachable, o.ssh_accessible, o.mysql_active)
        st == start_remote_node(node, o.start)
        started == IF chk.mysql_running THEN <<>> ELSE st.calls
        conf == <<Call("configure_instance", node.node_id, o.configure)>>
        add == <<Call("add_instance", node.node_id, o.add)>>
    IN IF ~chk.reachable
       THEN [success |-> FALSE, message |-> "Cannot reach", calls |-> chk.calls]
       ELSE IF ~chk.mysql_running /\ ~st.success
       THEN [success |-> FALSE, message |-> "Cannot start MySQL",
             calls |-> chk.calls \o started]
       ELSE IF ~o.configure
       THEN [success |-> FALSE, message |-> "Cannot configure MySQL",
             calls |-> chk.calls \o started \o conf]
       ELSE IF ~o.add
       THEN [success |-> FALSE, message |-> "Cannot add to cluster",
             calls |-> chk.calls \o started \o conf \o add]
       ELSE [success |-> TRUE, message |-> "Successfully added",
             calls |-> chk.calls \o started \o conf \o add]

\* ClusterBridge.add_remote_secondary
add_remote_secondary(host, ssh_user) ==
    /\ Idle
    /\ Len(secondaries) < MaxSecondaries
    /\ LET secs2 == add_secondary(secondaries, host, ssh_user, REMOTE_MACHINE)
           node == secs2[Len(secs2)]
       IN \E o \in AddRemoteOutcomes(node) :
         LET r == AddRemoteRun(node, o)
         IN /\ secondaries' = secs2
            /\ saved' = IF r.success THEN save(secs2) ELSE saved
            /\ calls' = r.calls
            /\ results' = [op |-> "add_remote_secondary", success |-> r.success,
                           message |-> r.message]
            /\ env' = [reachable |-> {}]
            /\ before' = secondaries
            /\ UNCHANGED <<compose, use_custom_image>>

\* the node found by the loop "for n in self.config.secondaries" of
\* remove_secondary: the position of the first node with that id, 0 if none
RECURSIVE FindNode(_, _, _)
FindNode(secs, node_id, i) ==
    IF i > Len(secs) THEN 0
    ELSE IF secs[i].node_id = node_id THEN i
         ELSE FindNode(secs, node_id, i + 1)

\* the ids an operator may ask to remove
NodeIds == 1..(MaxSecondaries + 2)

\* outcomes of the mysqlsh removeInstance run of remove_secondary
RemoveOutcomes == {"ok", "error", "timeout"}

\* a remove_secondary that writes cluster.json also when the id is not found
remove_secondary_SavesAlways(node_id) ==
    LET pos == FindNode(secondaries, node_id, 1)
        found == pos # 0
        node == secondaries[pos]
        secs2 == ListRemove(secondaries, node)
    IN /\ Idle
       /\ \E o \in IF found THEN RemoveOutcomes ELSE {"ok"} :
          \E rm_ok \in IF found /\ IsDocker(node) THEN BOOLEAN ELSE {TRUE} :
            IF ~found
            THEN /\ results' = [op |-> "remove_secondary", success |-> FALSE,
                                message |-> "not found", node_id |-> node_id]
                 /\ calls' = <<>>
                 /\ saved' = save(secondaries)
                 /\ UNCHANGED secondaries
            ELSE /\ results' = [op |-> "remove_secondary", success |-> TRUE,
                                message |-> "Removed node", node_id |-> node_id]
                 /\ calls' = <<Call("remove_instance", node_id, o = "ok")>> \o
                             (IF IsDocker(node)
                              THEN <<Call("docker_rm", node_id, rm_ok)>>
                              ELSE <<>>)
                 /\ secondaries' = secs2
                 /\ saved' = save(secs2)
       /\ env' = [reachable |-> {}]
       /\ before' = secondaries
       /\ UNCHANGED <<compose, use_custom_image>>

\* a remove_secondary that gives up when the remove-instance run fails
remove_secondary_StopsOnError(node_id) ==
    LET pos == FindNode(secondaries, node_id, 1)
        found == pos # 0
        node == secondaries[pos]
        secs2 == ListRemove(secondaries, node)
    IN /\ Idle
       /\ \E o \in IF found THEN RemoveOutcomes ELSE {"ok"} :
          \E rm_ok \in IF found /\ IsDocker(node) THEN BOOLEAN ELSE {TRUE} :
            IF ~found
            THEN /\ results' = [op |-> "remove_secondary", success |-> FALSE,
                                message |-> "not found", node_id |-> node_id]
                 /\ calls' = <<>>
                 /\ UNCHANGED <<secondaries, saved>>
            ELSE IF o # "ok"
            THEN /\ results' = [op |-> "remove_secondary", success |-> FALSE,
                                message |-> "Error removing node",
                                node_id |-> node_id]
                 /\ calls' = <<Call("remove_instance", node_id, FALSE)>>
                 /\ UNCHANGED <<secondaries, saved>>
            ELSE /\ results' = [op |-> "remove_secondary", success |-> TRUE,
                                message |-> "Removed node", node_id |-> node_id]
                 /\ calls' = <<Call("remove_instance", node_id, TRUE)>> \o
                             (IF IsDocker(node)
                              THEN <<Call("docker_rm", node_id, rm_ok)>>
                              ELSE <<>>)
                 /\ secondaries' = secs2
                 /\ saved' = save(secs2)
       /\ env' = [reachable |-> {}]
       /\ before' = secondaries
       /\ UNCHANGED <<compose, use_custom_image>>

\* ClusterBridge.remove_secondary
remove_secondary(node_id) ==
    LET pos == FindNode(secondaries, node_id, 1)
        found == pos # 0
        node == secondaries[pos]
        secs2 == ListRemove(secondaries, node)
    IN /\ Idle
       /\ \E o \in IF found THEN RemoveOutcomes ELSE {"ok"} :
          \E rm_ok \in IF found /\ IsDocker(node) THEN BOOLEAN ELSE {TRUE} :
            IF ~found
            THEN /\ results' = [op |-> "remove_secondary", success |-> FALSE,
                                message |-> "not found", node_id |-> node_id]
                 /\ calls' = <<>>
                 /\ UNCHANGED <<secondaries, saved>>
            ELSE /\ results' = [op |-> "remove_secondary", success |-> TRUE,
                                message |-> "Removed node", node_id |-> node_id]
                 /\ calls' = <<Call("remove_instance", node_id, o = "ok")>> \o
                             (IF IsDocker(node)
                              THEN <<Call("docker_rm", node_id, rm_ok)>>
                              ELSE <<>>)
                 /\ secondaries' = secs2
                 /\ saved' = save(secs2)
       /\ env' = [reachable |-> {}]
       /\ before' = secondaries
       /\ UNCHANGED <<compose, use_custom_image>>

(***************************************************************************)
(* Specification of the topology operations                                *)
(***************************************************************************)
\* the remote_hosts lists given to create_default_config
RemoteHostLists == UNION {[1..m -> RemoteHosts] : m \in 0..MaxRemoteHosts}

\* a cluster created by "create" (create_default_config, then setup, which
\* writes the manifest and cluster.json)
Init ==
    \E n \in 0..MaxSecondaries, rh \in RemoteHostLists, uci \in BOOLEAN :
      /\ secondaries = create_default_config(n, rh)
      /\ saved = save(secondaries)
      /\ compose = generate_docker_compose(secondaries,
                                           [exists |-> FALSE, services |-> {}])
      /\ use_custom_image = uci
      /\ before = <<>>
      /\ calls = <<>>
      /\ env = [reachable |-> {}]
      /\ results = NoReport

\* the operation has returned: its caller (a command of cli.py, which prints
\* the report and exits) is done with the report
Return ==
    /\ ~Idle
    /\ before' = <<>>
    /\ calls' = <<>>
    /\ env' = [reachable |-> {}]
    /\ results' = NoReport
    /\ UNCHANGED <<secondaries, saved, compose, use_custom_image>>

Next ==
    \/ \E t \in Targets : scale(t)
    \/ \E rh \in RemoteHosts : add_remote_secondary(rh.host, rh.ssh_user)
    \/ \E id \in NodeIds : remove_secondary(id)
    \/ Return

Spec == Init /\ [][Next]_vars

(***************************************************************************)
(* Specification of add_secondary / remove_secondary used back to back     *)
(***************************************************************************)
\* the node_type arguments of ClusterConfig.add_secondary
NodeTypeArgs == {None, REMOTE_MACHINE, DOCKER_CONTAINER}

\* the (host, ssh_user) arguments of ClusterConfig.add_secondary
HostArgs == RemoteHosts \cup {[host |-> None, ssh_user |-> None]}

\* ClusterConfig.add_secondary called on its own: the node is appended and
\* returned
AddSecondary(host, ssh_user, node_type) ==
    /\ Idle
    /\ Len(secondaries) < MaxSecondaries
    /\ secondaries' = add_secondary(secondaries, host, ssh_user, node_type)
    /\ results' = [op |-> "add_secondary", success |-> TRUE, message |-> "",
                   node_id |-> NewSecondary(secondaries, host, ssh_user,
                                            node_type).node_id]
    /\ calls' = <<>>
    /\ env' = [reachable |-> {}]
    /\ before' = secondaries
    /\ UNCHANGED <<saved, compose, use_custom_image>>

\* node = config.add_secondary(...), then
\* ClusterBridge.remove_secondary(node.node_id)
AddThenRemove(host, ssh_user, node_type) ==
    LET added == add_secondary(secondaries, host, ssh_user, node_type)
        node_id == added[Len(added)].node_id
        pos == FindNode(added, node_id, 1)
        found == pos # 0
        node == added[pos]
        secs2 == ListRemove(added, node)
    IN /\ Idle
       /\ \E o \in IF found THEN RemoveOutcomes ELSE {"ok"} :
          \E rm_ok \in IF found /\ IsDocker(node) THEN BOOLEAN ELSE {TRUE} :
            IF ~found
            THEN /\ results' = [op |-> "add_then_remove", success |-> FALSE,
                                message |-> "not found", node_id |-> node_id]
                 /\ calls' = <<>>
                 /\ secondaries' = added
                 /\ UNCHANGED saved
            ELSE /\ results' = [op |-> "add_then_remove", success |-> TRUE,
                                message |-> "Removed node", node_id |-> node_id]
                 /\ calls' = <<Call("remove_instance", node_id, o = "ok")>> \o
                             (IF IsDocker(node)
                              THEN <<Call("docker_rm", node_id, rm_ok)>>
                              ELSE <<>>)
                 /\ secondaries' = secs2
                 /\ saved' = save(secs2)
       /\ env' = [reachable |-> {}]
       /\ before' = secondaries
       /\ UNCHANGED <<compose, use_custom_image>>

NextApi ==
    \/ \E h \in HostArgs, t \in NodeTypeArgs : AddSecondary(h.host, h.ssh_user, t)
    \/ \E h \in HostArgs, t \in NodeTypeArgs : AddThenRemove(h.host, h.ssh_user, t)
    \/ \E id \in NodeIds : remove_secondary(id)
    \/ Return

SpecApi == Init /\ [][NextApi]_vars

(***************************************************************************)
(* primary.py: start, stop                                                 *)
(***************************************************************************)
\* outcomes of the commands of PrimaryNodeManager.start / stop: is_running()
\* at entry, the systemctl command, the poll iteration that first succeeds
CommandOutcomes == {"ok", "nonzero", "timeout", "error"}

PrimaryOutcomes ==
    { o \in [running : BOOLEAN, cmd : CommandOutcomes, ready_at : ReadyAts] :
        /\ o.running => o.cmd = "ok"
        /\ (o.running \/ o.cmd # "ok") => o.ready_at = 1 }

\* PrimaryNodeManager.start
primary_manager_start(o) ==
    LET check == <<Call("primary_is_running", PrimaryId, o.running)>>
        cmd == <<Call("systemctl_start", PrimaryId, o.cmd = "ok")>>
    IN IF o.running
       THEN [success |-> TRUE, message |-> "MySQL is already running",
             calls |-> check]
       ELSE IF o.cmd # "ok"
       THEN [success |-> FALSE,
             message |-> CASE o.cmd = "nonzero" -> "Failed to start MySQL"
                           [] o.cmd = "timeout" -> "Timeout starting MySQL"
                           [] o.cmd = "error" -> "Error starting MySQL",
             calls |-> check \o cmd]
       ELSE [success |-> PollSucceeds(o.ready_at),
             message |-> IF PollSucceeds(o.ready_at)
                         THEN "MySQL started successfully"
                         ELSE "MySQL started but not responding",
             calls |-> check \o cmd \o
                       PollCalls("primary_ready", PrimaryId, 1, o.ready_at)]

\* PrimaryNodeManager.stop (o.running: is_running() at entry; o.ready_at: the
\* poll iteration at which is_running() first answers false)
primary_manager_stop(o) ==
    LET check == <<Call("primary_is_running", PrimaryId, o.running)>>
        cmd == <<Call("systemctl_stop", PrimaryId, o.cmd = "ok")>>
    IN IF ~o.running
       THEN [success |-> TRUE, message |-> "MySQL is not running",
             calls |-> check]
       ELSE IF o.cmd # "ok"
       THEN [success |-> FALSE,
             message |-> CASE o.cmd = "nonzero" -> "Failed to stop MySQL"
                           [] o.cmd = "timeout" -> "Timeout stopping MySQL"
                           [] o.cmd = "error" -> "Error stopping MySQL",
             calls |-> check \o cmd]
       ELSE [success |-> PollSucceeds(o.ready_at),
             message |-> IF PollSucceeds(o.ready_at)
                         THEN "MySQL stopped successfully"
                         ELSE "MySQL still running after stop command",
             calls |-> check \o cmd \o
                       PollCalls("primary_stopped", PrimaryId, 1, o.ready_at)]

\* outcomes for stop: here o.running = FALSE is the run without a command
PrimaryStopOutcomes ==
    { o \in [running : BOOLEAN, cmd : CommandOutcomes, ready_at : ReadyAts] :
        /\ ~o.running => o.cmd = "ok"
        /\ (~o.running \/ o.cmd # "ok") => o.ready_at = 1 }

(***************************************************************************)
(* secondary.py: start_all, stop_all                                       *)
(***************************************************************************)
\* the per-node entries start_all appends to results["remote"]["nodes"]
\* a remote loop that gives up at the first node that fails to start
RECURSIVE StartRemoteNodesUntilFailure(_, _, _)
StartRemoteNodesUntilFailure(remote_nodes, i, o) ==
    IF i > Len(remote_nodes) THEN [nodes |-> <<>>, calls |-> <<>>]
    ELSE LET st == start_remote_node(remote_nodes[i], o[i])
             rest == IF st.success
                     THEN StartRemoteNodesUntilFailure(remote_nodes, i + 1, o)
                     ELSE [nodes |-> <<>>, calls |-> <<>>]
         IN [nodes |-> <<[host |-> remote_nodes[i].host,
                          success |-> st.success,
                          message |-> st.message]>> \o rest.nodes,
             calls |-> st.calls \o rest.calls]

RECURSIVE StartRemoteNodes(_, _, _)
StartRemoteNodes(remote_nodes, i, o) ==
    IF i > Len(remote_nodes) THEN [nodes |-> <<>>, calls |-> <<>>]
    ELSE LET st == start_remote_node(remote_nodes[i], o[i])
             rest == StartRemoteNodes(remote_nodes, i + 1, o)
         IN [nodes |-> <<[host |-> remote_nodes[i].host,
                          success |-> st.success,
                          message |-> st.message]>> \o rest.nodes,
             calls |-> st.calls \o rest.calls]

\* results["remote"]["success"]: cleared by every failed node
AllSucceeded(nodes) == \A i \in 1..Len(nodes) : nodes[i].success

\* SecondaryNodeManager.start_all
start_all(secs, comp, uci, o) ==
    LET docker_nodes == get_docker_nodes(secs)
        d == start_docker_containers(secs, comp, uci, o.docker)
        r == StartRemoteNodes(get_remote_nodes(secs), 1, o.remote)
    IN [docker |-> IF docker_nodes # <<>>
                   THEN [success |-> d.success, message |-> d.message,
                         nodes |-> Services(docker_nodes)]
                   ELSE [success |-> TRUE, message |-> "", nodes |-> {}],
        remote |-> [success |-> AllSucceeded(r.nodes), nodes |-> r.nodes],
        compose |-> d.compose,
        calls |-> d.calls \o r.calls]

\* outcomes of the commands of start_all on a topology
StartAllOutcomes(secs, uci) ==
    [docker : IF get_docker_nodes(secs) # <<>>
              THEN DockerOutcomes(uci)
              ELSE {[image_exists |-> TRUE, build_ok |-> TRUE, up |-> "ok"]},
     remote : [1..Len(get_remote_nodes(secs)) -> RemoteStartOutcomes]]

\* SecondaryNodeManager.stop_remote_node
stop_remote_node(node, ssh_ok) ==
    IF node.ssh_user = None
    THEN [success |-> FALSE, message |-> "SSH user not configured", calls |-> <<>>]
    ELSE [success |-> ssh_ok,
          message |-> IF ssh_ok THEN "MySQL stopped successfully" ELSE "stderr",
          calls |-> <<Call("ssh_stop", node.node_id, ssh_ok)>>]

\* SecondaryNodeManager.stop_docker_containers
stop_docker_containers(comp, down) ==
    IF ~comp.exists
    THEN [success |-> TRUE, message |-> "No docker-compose file found",
          calls |-> <<>>]
    ELSE [success |-> down = "ok",
          message |-> CASE down = "ok" -> "Docker containers stopped"
                        [] down = "nonzero" -> "Failed to stop containers"
                        [] down = "error" -> "exception",
          calls |-> <<Call("compose_down", 0, down = "ok")>>]

RECURSIVE StopRemoteNodes(_, _, _)
StopRemoteNodes(remote_nodes, i, o) ==
    IF i > Len(remote_nodes) THEN [nodes |-> <<>>, calls |-> <<>>]
    ELSE LET st == stop_remote_node(remote_nodes[i], o[i])
             rest == StopRemoteNodes(remote_nodes, i + 1, o)
         IN [nodes |-> <<[host |-> remote_nodes[i].host,
                          success |-> st.success,
                          message |-> st.message]>> \o rest.nodes,
             calls |-> st.calls \o rest.calls]

\* SecondaryNodeManager.stop_all
stop_all(secs, comp, o) ==
    LET d == stop_docker_containers(comp, o.docker)
        r == StopRemoteNodes(get_remote_nodes(secs), 1, o.remote)
    IN [docker |-> [success |-> d.success, message |-> d.message],
        remote |-> [success |-> AllSucceeded(r.nodes), nodes |-> r.nodes],
        calls |-> d.calls \o r.calls]

\* outcomes of the commands of stop_all on a topology
StopAllOutcomes(secs, comp) ==
    [docker : IF comp.exists THEN {"ok", "nonzero", "error"} ELSE {"ok"},
     remote : [1..Len(get_remote_nodes(secs)) -> BOOLEAN]]

(***************************************************************************)
(* cluster.py: setup_group_replication                                     *)
(***************************************************************************)
\* what the backend answers to dba.configureInstance, to getCluster /
\* createCluster and to cluster.addInstance
ConfigureAnswers == {"configured", "error"}
CreateAnswers == {"exists", "created", "error"}
AddAnswers == {"added", "error"}

\* exit status 0 of the mysqlsh scripts (the scripts rethrow every error they
\* do not recognise, and mysqlsh then exits nonzero)
\* a configure script that rethrows every error of dba.configureInstance
ConfigureSucceedsFirstTimeOnly(answer) == answer = "configured"

ConfigureSucceeds(answer) ==
    answer \in {"configured", "already configured", "already been configured"}

CreateSucceeds(answer) == answer \in {"exists", "created"}

\* an add script that rethrows every error of cluster.addInstance
AddSucceedsFirstTimeOnly(answer) == answer = "added"

AddSucceeds(answer) == answer \in {"added", "already a member", "is already part"}

\* outcomes for one secondary: configure, then add
NodeOutcomes ==
    { o \in [configure : ConfigureAnswers, add : AddAnswers] :
        ~ConfigureSucceeds(o.configure) => o.add = "added" }

\* one entry of results["steps"]
Step(name, node_id, success) == [name |-> name, node |-> node_id, success |-> success]

\* a secondary loop that gives up at the first secondary that fails
RECURSIVE ConfigureAndAddUntilFailure(_, _, _)
ConfigureAndAddUntilFailure(secs, i, o) ==
    IF i > Len(secs) THEN [steps |-> <<>>, calls |-> <<>>]
    ELSE LET id == secs[i].node_id
             c_ok == ConfigureSucceeds(o[i].configure)
             a_ok == AddSucceeds(o[i].add)
             rest == IF c_ok /\ a_ok
                     THEN ConfigureAndAddUntilFailure(secs, i + 1, o)
                     ELSE [steps |-> <<>>, calls |-> <<>>]
         IN IF ~c_ok
            THEN [steps |-> <<Step("configure_secondary", id, FALSE)>> \o rest.steps,
                  calls |-> <<Call("configure_instance", id, FALSE)>> \o rest.calls]
            ELSE [steps |-> <<Step("configure_secondary", id, TRUE),
                              Step("add_secondary", id, a_ok)>> \o rest.steps,
                  calls |-> <<Call("configure_instance", id, TRUE),
                              Call("add_instance", id, a_ok)>> \o rest.calls]

\* a secondary loop that passes every secondary to add-instance, configured
\* or not
RECURSIVE ConfigureAndAddRegardless(_, _, _)
ConfigureAndAddRegardless(secs, i, o) ==
    IF i > Len(secs) THEN [steps |-> <<>>, calls |-> <<>>]
    ELSE LET id == secs[i].node_id
             c_ok == ConfigureSucceeds(o[i].configure)
             a_ok == AddSucceeds(o[i].add)
             rest == ConfigureAndAddRegardless(secs, i + 1, o)
         IN [steps |-> <<Step("configure_secondary", id, c_ok),
                         Step("add_secondary", id, a_ok)>> \o rest.steps,
             calls |-> <<Call("configure_instance", id, c_ok),
                         Call("add_instance", id, a_ok)>> \o rest.calls]

\* the loop "Configure and add each secondary" of setup_group_replication,
\* from position i on
RECURSIVE ConfigureAndAdd(_, _, _)
ConfigureAndAdd(secs, i, o) ==
    IF i > Len(secs) THEN [steps |-> <<>>, calls |-> <<>>]
    ELSE LET id == secs[i].node_id
             c_ok == ConfigureSucceeds(o[i].configure)
             a_ok == AddSucceeds(o[i].add)
             rest == ConfigureAndAdd(secs, i + 1, o)
         IN IF ~c_ok
            THEN [steps |-> <<Step("configure_secondary", id, FALSE)>> \o rest.steps,
                  calls |-> <<Call("configure_instance", id, FALSE)>> \o rest.calls]
            ELSE [steps |-> <<Step("configure_secondary", id, TRUE),
                              Step("add_secondary", id, a_ok)>> \o rest.steps,
                  calls |-> <<Call("configure_instance", id, TRUE),
                              Call("add_instance", id, a_ok)>> \o rest.calls]

\* results["success"] of setup_group_replication: cleared only where the
\* method returns early
ReplicationSuccess(primary_configured, cluster_created) ==
    primary_configured /\ cluster_created

\* a setup_group_replication that queries the status before the secondaries
setup_group_replication_StatusFirst(secs, o) ==
    LET p_ok == ConfigureSucceeds(o.configure_primary)
        g_ok == CreateSucceeds(o.create_cluster)
        p_step == <<Step("configure_primary", PrimaryId, p_ok)>>
        p_call == <<Call("configure_instance", PrimaryId, p_ok)>>
        g_step == <<Step("create_cluster", PrimaryId, g_ok)>>
        g_call == <<Call("create_cluster", PrimaryId, g_ok)>>
        n == ConfigureAndAdd(secs, 1, o.nodes)
    IN IF ~p_ok
       THEN [success |-> FALSE, steps |-> p_step, cluster_status |-> <<>>,
             calls |-> p_call]
       ELSE IF ~g_ok
       THEN [success |-> FALSE, steps |-> p_step \o g_step,
             cluster_status |-> <<>>, calls |-> p_call \o g_call]
       ELSE [success |-> ReplicationSuccess(p_ok, g_ok),
             steps |-> p_step \o g_step \o n.steps,
             cluster_status |-> IF o.status THEN <<"status">>
                                ELSE <<"Unable to get status">>,
             calls |-> p_call \o g_call \o
                       <<Call("cluster_status", PrimaryId, o.status)>> \o n.calls]

\* a setup_group_replication that records a failed create_cluster and goes on
setup_group_replication_NoEarlyReturn(secs, o) ==
    LET p_ok == ConfigureSucceeds(o.configure_primary)
        g_ok == CreateSucceeds(o.create_cluster)
        p_step == <<Step("configure_primary", PrimaryId, p_ok)>>
        p_call == <<Call("configure_instance", PrimaryId, p_ok)>>
        g_step == <<Step("create_cluster", PrimaryId, g_ok)>>
        g_call == <<Call("create_cluster", PrimaryId, g_ok)>>
        n == ConfigureAndAdd(secs, 1, o.nodes)
    IN IF ~p_ok
       THEN [success |-> FALSE, steps |-> p_step, cluster_status |-> <<>>,
             calls |-> p_call]
       ELSE [success |-> ReplicationSuccess(p_ok, g_ok),
             steps |-> p_step \o g_step \o n.steps,
             cluster_status |-> IF o.status THEN <<"status">>
                                ELSE <<"Unable to get status">>,
             calls |-> p_call \o g_call \o n.calls \o
                       <<Call("cluster_status", PrimaryId, o.status)>>]

\* ClusterBridge.setup_group_replication
setup_group_replication(secs, o) ==
    LET p_ok == ConfigureSucceeds(o.configure_primary)
        g_ok == CreateSucceeds(o.create_cluster)
        p_step == <<Step("configure_primary", PrimaryId, p_ok)>>
        p_call == <<Call("configure_instance", PrimaryId, p_ok)>>
        g_step == <<Step("create_cluster", PrimaryId, g_ok)>>
        g_call == <<Call("create_cluster", PrimaryId, g_ok)>>
        n == ConfigureAndAdd(secs, 1, o.nodes)
    IN IF ~p_ok
       THEN [success |-> FALSE, steps |-> p_step, cluster_status |-> <<>>,
             calls |-> p_call]
       ELSE IF ~g_ok
       THEN [success |-> FALSE, steps |-> p_step \o g_step,
             cluster_status |-> <<>>, calls |-> p_call \o g_call]
       ELSE [success |-> ReplicationSuccess(p_ok, g_ok),
             steps |-> p_step \o g_step \o n.steps,
             cluster_status |-> IF o.status THEN <<"status">>
                                ELSE <<"Unable to get status">>,
             calls |-> p_call \o g_call \o n.calls \o
                       <<Call("cluster_status", PrimaryId, o.status)>>]

\* outcomes of the commands of setup_group_replication on a topology
ReplicationOutcomes(secs) ==
    LET Quiet == [i \in 1..Len(secs) |-> [configure |-> "configured", add |-> "added"]]
    IN { o \in [configure_primary : ConfigureAnswers, create_cluster : CreateAnswers,
                nodes : [1..Len(secs) -> NodeOutcomes], status : BOOLEAN] :
           LET established == ConfigureSucceeds(o.configure_primary)
                              /\ CreateSucceeds(o.create_cluster)
           IN /\ ~ConfigureSucceeds(o.configure_primary) => o.create_cluster = "exists"
              /\ ~established => (o.nodes = Quiet /\ o.status) }

\* "replication": None
NoReplication ==
    [success |-> TRUE, steps |-> <<>>, cluster_status |-> <<>>, calls |-> <<>>]

\* the outcomes of commands that are not run
QuietStartAll(secs) ==
    [docker |-> [image_exists |-> TRUE, build_ok |-> TRUE, up |-> "ok"],
     remote |-> [i \in 1..Len(get_remote_nodes(secs)) |->
                    [ssh_ok |-> TRUE, ready_at |-> 1]]]

QuietReplication(secs) ==
    [configure_primary |-> "configured", create_cluster |-> "exists",
     nodes |-> [i \in 1..Len(secs) |-> [configure |-> "configured", add |-> "added"]],
     status |-> TRUE]

(***************************************************************************)
(* cluster.py: start, stop, restart                                        *)
(***************************************************************************)
\* results["success"] of start once the primary has started
StartSuccess(docker_ok, remote_ok, setup_replication, replication_ok) ==
    /\ docker_ok /\ remote_ok
    /\ setup_replication => replication_ok

\* a start that starts the secondaries before the primary
start_run_SecondariesFirst(secs, comp, uci, setup_replication, po, so, ro) ==
    LET p == primary_manager_start(po)
        sa == start_all(secs, comp, uci, so)
        rp == IF setup_replication THEN setup_group_replication(secs, ro)
              ELSE NoReplication
    IN IF ~p.success
       THEN [results |-> [op |-> "start", success |-> FALSE,
                          primary |-> <<[success |-> FALSE, message |-> p.message]>>,
                          secondaries |-> <<>>, replication |-> <<>>],
             calls |-> sa.calls \o p.calls, compose |-> sa.compose]
       ELSE [results |-> [op |-> "start",
                          success |-> StartSuccess(sa.docker.success,
                                                   sa.remote.success,
                                                   setup_replication, rp.success),
                          primary |-> <<[success |-> TRUE, message |-> p.message]>>,
                          secondaries |-> <<[docker |-> sa.docker,
                                             remote |-> sa.remote]>>,
                          replication |-> IF setup_replication
                                          THEN <<[success |-> rp.success,
                                                  steps |-> rp.steps,
                                                  cluster_status |-> rp.cluster_status]>>
                                          ELSE <<>>],
             calls |-> sa.calls \o p.calls \o rp.calls, compose |-> sa.compose]

\* a start that records the primary's failure and goes on to the secondaries
start_run_NoAbort(secs, comp, uci, setup_replication, po, so, ro) ==
    LET p == primary_manager_start(po)
        sa == start_all(secs, comp, uci, so)
        rp == IF setup_replication THEN setup_group_replication(secs, ro)
              ELSE NoReplication
    IN [results |-> [op |-> "start",
                     success |-> p.success
                                 /\ StartSuccess(sa.docker.success,
                                                 sa.remote.success,
                                                 setup_replication, rp.success),
                     primary |-> <<[success |-> p.success, message |-> p.message]>>,
                     secondaries |-> <<[docker |-> sa.docker,
                                        remote |-> sa.remote]>>,
                     replication |-> IF setup_replication
                                     THEN <<[success |-> rp.success,
                                             steps |-> rp.steps,
                                             cluster_status |-> rp.cluster_status]>>
                                     ELSE <<>>],
        calls |-> p.calls \o sa.calls \o rp.calls, compose |-> sa.compose]

\* ClusterBridge.start: the report, the commands run, the manifest afterwards
start_run(secs, comp, uci, setup_replication, po, so, ro) ==
    LET p == primary_manager_start(po)
        sa == start_all(secs, comp, uci, so)
        rp == IF setup_replication THEN setup_group_replication(secs, ro)
              ELSE NoReplication
    IN IF ~p.success
       THEN [results |-> [op |-> "start", success |-> FALSE,
                          primary |-> <<[success |-> FALSE, message |-> p.message]>>,
                          secondaries |-> <<>>, replication |-> <<>>],
             calls |-> p.calls, compose |-> comp]
       ELSE [results |-> [op |-> "start",
                          success |-> StartSuccess(sa.docker.success,
                                                   sa.remote.success,
                                                   setup_replication, rp.success),
                          primary |-> <<[success |-> TRUE, message |-> p.message]>>,
                          secondaries |-> <<[docker |-> sa.docker,
                                             remote |-> sa.remote]>>,
                          replication |-> IF setup_replication
                                          THEN <<[success |-> rp.success,
                                                  steps |-> rp.steps,
                                                  cluster_status |-> rp.cluster_status]>>
                                          ELSE <<>>],
             calls |-> p.calls \o sa.calls \o rp.calls, compose |-> sa.compose]

\* results["success"] of stop
StopSuccess(primary_ok, docker_ok, remote_ok) == primary_ok

\* a stop that stops the primary before the secondaries
stop_run_PrimaryFirst(secs, comp, so, po) ==
    LET sa == stop_all(secs, comp, so)
        p == primary_manager_stop(po)
    IN [results |-> [op |-> "stop",
                     success |-> StopSuccess(p.success, sa.docker.success,
                                             sa.remote.success),
                     primary |-> <<[success |-> p.success, message |-> p.message]>>,
                     secondaries |-> <<[docker |-> sa.docker, remote |-> sa.remote]>>],
        calls |-> p.calls \o sa.calls]

\* ClusterBridge.stop: the report and the commands run
stop_run(secs, comp, so, po) ==
    LET sa == stop_all(secs, comp, so)
        p == primary_manager_stop(po)
    IN [results |-> [op |-> "stop",
                     success |-> StopSuccess(p.success, sa.docker.success,
                                             sa.remote.success),
                     primary |-> <<[success |-> p.success, message |-> p.message]>>,
                     secondaries |-> <<[docker |-> sa.docker, remote |-> sa.remote]>>],
        calls |-> sa.calls \o p.calls]

\* ClusterBridge.start
start(setup_replication) ==
    /\ Idle
    /\ \E po \in PrimaryOutcomes :
       \E so \in IF primary_manager_start(po).success
                 THEN StartAllOutcomes(secondaries, use_custom_image)
                 ELSE {QuietStartAll(secondaries)} :
       \E ro \in IF primary_manager_start(po).success /\ setup_replication
                 THEN ReplicationOutcomes(secondaries)
                 ELSE {QuietReplication(secondaries)} :
         LET r == start_run(secondaries, compose, use_custom_image,
                            setup_replication, po, so, ro)
         IN /\ results' = [r.results EXCEPT !.op = "start"]
            /\ calls' = r.calls
            /\ compose' = r.compose
    /\ env' = [reachable |-> {}]
    /\ before' = secondaries
    /\ UNCHANGED <<secondaries, saved, use_custom_image>>

\* cmd_stop: the exit code of the stop command
cmd_stop(report) == IF report.success THEN 0 ELSE 1

\* ClusterBridge.stop
stop ==
    /\ Idle
    /\ \E so \in StopAllOutcomes(secondaries, compose), po \in PrimaryStopOutcomes :
         LET r == stop_run(secondaries, compose, so, po)
         IN /\ results' = r.results
            /\ calls' = r.calls
    /\ env' = [reachable |-> {}]
    /\ before' = secondaries
    /\ UNCHANGED <<secondaries, saved, compose, use_custom_image>>

\* a restart that starts with the default setup_replication=True
restart_WithReplication ==
    /\ Idle
    /\ \E sso \in StopAllOutcomes(secondaries, compose), spo \in PrimaryStopOutcomes :
       \E po \in PrimaryOutcomes :
       \E so \in IF primary_manager_start(po).success
                 THEN StartAllOutcomes(secondaries, use_custom_image)
                 ELSE {QuietStartAll(secondaries)} :
       \E ro \in IF primary_manager_start(po).success
                 THEN ReplicationOutcomes(secondaries)
                 ELSE {QuietReplication(secondaries)} :
         LET st == stop_run(secondaries, compose, sso, spo)
             r == start_run(secondaries, compose, use_custom_image, TRUE,
                            po, so, ro)
         IN /\ results' = [r.results EXCEPT !.op = "restart"]
            /\ calls' = st.calls \o r.calls
            /\ compose' = r.compose
    /\ env' = [reachable |-> {}]
    /\ before' = secondaries
    /\ UNCHANGED <<secondaries, saved, use_custom_image>>

\* ClusterBridge.restart: stop(), then start(setup_replication=False); the
\* report of stop() is dropped
restart ==
    /\ Idle
    /\ \E sso \in StopAllOutcomes(secondaries, compose), spo \in PrimaryStopOutcomes :
       \E po \in PrimaryOutcomes :
       \E so \in IF primary_manager_start(po).success
                 THEN StartAllOutcomes(secondaries, use_custom_image)
                 ELSE {QuietStartAll(secondaries)} :
         LET st == stop_run(secondaries, compose, sso, spo)
             r == start_run(secondaries, compose, use_custom_image, FALSE,
                            po, so, QuietReplication(secondaries))
         IN /\ results' = [r.results EXCEPT !.op = "restart"]
            /\ calls' = st.calls \o r.calls
            /\ compose' = r.compose
    /\ env' = [reachable |-> {}]
    /\ before' = secondaries
    /\ UNCHANGED <<secondaries, saved, use_custom_image>>

\* ClusterBridge.setup_group_replication, called on its own
SetupGroupReplication ==
    /\ Idle
    /\ \E ro \in ReplicationOutcomes(secondaries) :
         LET r == setup_group_replication(secondaries, ro)
         IN /\ results' = [op |-> "setup_group_replication",
                           success |-> r.success, steps |-> r.steps,
                           cluster_status |-> r.cluster_status]
            /\ calls' = r.calls
    /\ env' = [reachable |-> {}]
    /\ before' = secondaries
    /\ UNCHANGED <<secondaries, saved, compose, use_custom_image>>

(***************************************************************************)
(* Specification of the operations that join secondaries to the group      *)
(***************************************************************************)
NextJoin ==
    \/ SetupGroupReplication
    \/ \E rh \in RemoteHosts : add_remote_secondary(rh.host, rh.ssh_user)
    \/ Return

SpecJoin == Init /\ [][NextJoin]_vars

(***************************************************************************)
(* Specification of the lifecycle operations                               *)
(***************************************************************************)
NextLife ==
    \/ \E b \in BOOLEAN : start(b)
    \/ stop
    \/ restart
    \/ SetupGroupReplication
    \/ Return

SpecLife == Init /\ [][NextLife]_vars

(***************************************************************************)
(* The mysqlsh scripts against a backend that remembers what it was told    *)
(***************************************************************************)
\* what the script prints, or the error text mysqlsh leaves on stderr; a
\* run that raises (timeout) returns str(e)
ShellResult(exit_ok, stdout, answer) ==
    [success |-> exit_ok, message |-> IF exit_ok THEN stdout ELSE answer]

\* PrimaryNodeManager.configure_for_group_replication
configure_for_group_replication(answer) ==
    ShellResult(ConfigureSucceeds(answer),
                IF answer = "configured"
                THEN "Primary instance configured successfully"
                ELSE "Primary instance already configured",
                answer)

\* SecondaryNodeManager.configure_remote_node
configure_remote_node(node, answer) ==
    ShellResult(ConfigureSucceeds(answer),
                IF answer = "configured"
                THEN "Instance configured successfully"
                ELSE "Instance already configured",
                answer)

\* ClusterBridge._configure_docker_secondary
configure_docker_secondary(node, answer) ==
    ShellResult(ConfigureSucceeds(answer),
                IF answer = "configured"
                THEN "Instance configured successfully"
                ELSE "Instance already configured",
                answer)

\* ClusterBridge._add_node_to_cluster
add_node_to_cluster(node, answer) ==
    ShellResult(AddSucceeds(answer),
                IF answer = "added"
                THEN "Instance added successfully"
                ELSE "Instance is already a member of the cluster",
                answer)

\* the error messages the configure scripts look for
AlreadyConfigured == {"already configured", "already been configured"}

\* the error messages the add script looks for
AlreadyMember == {"already a member", "is already part"}

\* what dba.configureInstance answers for an instance: done, an error
\* message, or no answer in time
BackendConfigureAnswers(is_configured) ==
    IF is_configured THEN AlreadyConfigured \cup {"error", "timeout"}
    ELSE {"configured", "error", "timeout"}

\* what cluster.addInstance answers for an instance
BackendAddAnswers(is_member) ==
    IF is_member THEN AlreadyMember \cup {"error", "timeout"}
    ELSE {"added", "error", "timeout"}

\* one run of a script: the report, the command, the backend afterwards
ShellStep(op, node, answer, r) ==
    /\ results' = [op |-> op, node |-> node.node_id, node_type |-> node.node_type,
                   answer |-> answer, success |-> r.success, message |-> r.message]
    /\ calls' = <<Call(op, node.node_id, r.success)>>
    /\ before' = secondaries
    /\ UNCHANGED <<secondaries, saved, compose, use_custom_image>>

\* configure_for_group_replication on the primary
ConfigurePrimary ==
    /\ Idle
    /\ \E answer \in BackendConfigureAnswers(PrimaryId \in env.configured) :
         /\ ShellStep("configure_instance", primary, answer,
                      configure_for_group_replication(answer))
         /\ env' = IF answer = "configured"
                   THEN [env EXCEPT !.configured = @ \cup {PrimaryId},
                                    !.acknowledged = @ \cup
                                      IF configure_for_group_replication(answer).success
                                      THEN {PrimaryId} ELSE {}]
                   ELSE env

\* the configure step of one secondary, dispatched on its type as in
\* setup_group_replication
ConfigureSecondary(i) ==
    /\ Idle
    /\ i \in 1..Len(secondaries)
    /\ LET node == secondaries[i]
       IN \E answer \in BackendConfigureAnswers(node.node_id \in env.configured) :
            LET r == IF node.node_type = REMOTE_MACHINE
                     THEN configure_remote_node(node, answer)
                     ELSE configure_docker_secondary(node, answer)
            IN /\ ShellStep("configure_instance", node, answer, r)
               /\ env' = IF answer = "configured"
                         THEN [env EXCEPT !.configured = @ \cup {node.node_id},
                                          !.acknowledged = @ \cup
                                            IF r.success THEN {node.node_id} ELSE {}]
                         ELSE env

\* _add_node_to_cluster for one secondary
AddNodeToCluster(i) ==
    /\ Idle
    /\ i \in 1..Len(secondaries)
    /\ LET node == secondaries[i]
       IN \E answer \in BackendAddAnswers(node.node_id \in env.members) :
            /\ ShellStep("add_instance", node, answer,
                         add_node_to_cluster(node, answer))
            /\ env' = IF answer = "added"
                      THEN [env EXCEPT !.members = @ \cup {node.node_id}]
                      ELSE env

\* the caller is done with the report of a script
ReturnShell ==
    /\ ~Idle
    /\ before' = <<>>
    /\ calls' = <<>>
    /\ results' = NoReport
    /\ UNCHANGED <<secondaries, saved, compose, use_custom_image, env>>

\* a cluster as created, and a backend on which nothing is configured
InitShell ==
    \E n \in 0..MaxSecondaries, rh \in RemoteHostLists, uci \in BOOLEAN :
      /\ secondaries = create_default_config(n, rh)
      /\ saved = save(secondaries)
      /\ compose = generate_docker_compose(secondaries,
                                           [exists |-> FALSE, services |-> {}])
      /\ use_custom_image = uci
      /\ before = <<>>
      /\ calls = <<>>
      /\ env = [configured |-> {}, acknowledged |-> {}, members |-> {}]
      /\ results = NoReport

NextShell ==
    \/ ConfigurePrimary
    \/ \E i \in 1..MaxSecondaries : ConfigureSecondary(i)
    \/ \E i \in 1..MaxSecondaries : AddNodeToCluster(i)
    \/ ReturnShell

SpecShell == InitShell /\ [][NextShell]_vars

(***************************************************************************)
(* Specification of start and stop of one node, by deployment kind         *)
(*                                                                         *)
(* env.running is the set of nodes whose MySQL is up and answering.  A     *)
(* start or stop command that was not followed by a successful poll leaves *)
(* either outcome open.  env.was_running records whether the nodes the     *)
(* operation is about were all up when it was entered.                     *)
(***************************************************************************)
\* the containers of the manifest
ContainerIds(secs) == Services(get_docker_nodes(secs))

\* the state of a node after a command whose effect the operation did not
\* observe
Unobserved(running, ids) == {running \cup ids, running \ ids}

\* PrimaryNodeManager.start on the local primary
PrimaryStart ==
    /\ Idle
    /\ \E o \in PrimaryOutcomes :
         LET r == primary_manager_start(o)
         IN /\ o.running = (PrimaryId \in env.running)
            /\ results' = [op |-> "node_start", kind |-> LOCAL_SYSTEMCTL,
                           success |-> r.success, message |-> r.message]
            /\ calls' = r.calls
            /\ \E now \in IF o.running \/ r.success THEN {env.running \cup {PrimaryId}}
                          ELSE IF o.cmd = "ok"
                          THEN Unobserved(env.running, {PrimaryId})
                          ELSE {env.running} :
                 env' = [running |-> now, was_running |-> o.running]
    /\ before' = secondaries
    /\ UNCHANGED <<secondaries, saved, compose, use_custom_image>>

\* PrimaryNodeManager.stop on the local primary
PrimaryStop ==
    /\ Idle
    /\ \E o \in PrimaryStopOutcomes :
         LET r == primary_manager_stop(o)
         IN /\ o.running = (PrimaryId \in env.running)
            /\ results' = [op |-> "node_stop", kind |-> LOCAL_SYSTEMCTL,
                           success |-> r.success, message |-> r.message]
            /\ calls' = r.calls
            /\ \E now \in IF ~o.running \/ r.success THEN {env.running \ {PrimaryId}}
                          ELSE IF o.cmd = "ok"
                          THEN Unobserved(env.running, {PrimaryId})
                          ELSE {env.running} :
                 env' = [running |-> now, was_running |-> o.running]
    /\ before' = secondaries
    /\ UNCHANGED <<secondaries, saved, compose, use_custom_image>>

\* SecondaryNodeManager.start_remote_node on the i-th remote machine
RemoteStart(i) ==
    /\ Idle
    /\ i \in 1..Len(get_remote_nodes(secondaries))
    /\ \E o \in RemoteStartOutcomes :
         LET node == get_remote_nodes(secondaries)[i]
             r == start_remote_node(node, o)
             issued == node.ssh_user # None /\ o.ssh_ok
         IN /\ results' = [op |-> "node_start", kind |-> REMOTE_MACHINE,
                           success |-> r.success, message |-> r.message]
            /\ calls' = r.calls
            /\ \E now \in IF r.success THEN {env.running \cup {node.node_id}}
                          ELSE IF issued
                          THEN Unobserved(env.running, {node.node_id})
                          ELSE {env.running} :
                 env' = [running |-> now,
                         was_running |-> node.node_id \in env.running]
    /\ before' = secondaries
    /\ UNCHANGED <<secondaries, saved, compose, use_custom_image>>

\* SecondaryNodeManager.stop_remote_node on the i-th remote machine
RemoteStop(i) ==
    /\ Idle
    /\ i \in 1..Len(get_remote_nodes(secondaries))
    /\ \E ssh_ok \in BOOLEAN :
         LET node == get_remote_nodes(secondaries)[i]
             r == stop_remote_node(node, ssh_ok)
         IN /\ results' = [op |-> "node_stop", kind |-> REMOTE_MACHINE,
                           success |-> r.success, message |-> r.message]
            /\ calls' = r.calls
            /\ \E now \in IF r.success
                          THEN Unobserved(env.running, {node.node_id})
                          ELSE {env.running} :
                 env' = [running |-> now,
                         was_running |-> node.node_id \in env.running]
    /\ before' = secondaries
    /\ UNCHANGED <<secondaries, saved, compose, use_custom_image>>

\* SecondaryNodeManager.start_docker_containers
DockerStart ==
    /\ Idle
    /\ get_docker_nodes(secondaries) # <<>>
    /\ \E o \in DockerOutcomes(use_custom_image) :
         LET r == start_docker_containers(secondaries, compose,
                                          use_custom_image, o)
             ids == ContainerIds(secondaries)
         IN /\ results' = [op |-> "node_start", kind |-> DOCKER_CONTAINER,
                           success |-> r.success, message |-> r.message]
            /\ calls' = r.calls
            /\ compose' = r.compose
            /\ \E now \in IF r.success THEN Unobserved(env.running, ids)
                          ELSE {env.running} :
                 env' = [running |-> now, was_running |-> ids \subseteq env.running]
    /\ before' = secondaries
    /\ UNCHANGED <<secondaries, saved, use_custom_image>>

\* SecondaryNodeManager.stop_docker_containers
DockerStop ==
    /\ Idle
    /\ get_docker_nodes(secondaries) # <<>>
    /\ \E down \in {"ok", "nonzero", "error"} :
         LET r == stop_docker_containers(compose, down)
             ids == ContainerIds(secondaries)
         IN /\ results' = [op |-> "node_stop", kind |-> DOCKER_CONTAINER,
                           success |-> r.success, message |-> r.message]
            /\ calls' = r.calls
            /\ \E now \in IF r.success /\ compose.exists
                          THEN Unobserved(env.running, ids)
                          ELSE {env.running} :
                 env' = [running |-> now, was_running |-> ids \subseteq env.running]
    /\ before' = secondaries
    /\ UNCHANGED <<secondaries, saved, compose, use_custom_image>>

\* the caller is done with the report of a start or stop
ReturnNode ==
    /\ ~Idle
    /\ before' = <<>>
    /\ calls' = <<>>
    /\ results' = NoReport
    /\ env' = [env EXCEPT !.was_running = FALSE]
    /\ UNCHANGED <<secondaries, saved, compose, use_custom_image>>

\* a cluster as created, with no node up
InitNode ==
    \E n \in 0..MaxSecondaries, rh \in RemoteHostLists, uci \in BOOLEAN :
      /\ secondaries = create_default_config(n, rh)
      /\ saved = save(secondaries)
      /\ compose = generate_docker_compose(secondaries,
                                           [exists |-> FALSE, services |-> {}])
      /\ use_custom_image = uci
      /\ before = <<>>
      /\ calls = <<>>
      /\ env = [running |-> {}, was_running |-> FALSE]
      /\ results = NoReport

NextNode ==
    \/ PrimaryStart
    \/ PrimaryStop
    \/ \E i \in 1..MaxSecondaries : RemoteStart(i)
    \/ \E i \in 1..MaxSecondaries : RemoteStop(i)
    \/ DockerStart
    \/ DockerStop
    \/ ReturnNode

SpecNode == InitNode /\ [][NextNode]_vars

(***************************************************************************)
(* Specification of two commands run at the same time                      *)
(*                                                                         *)
(* Every command of cli.py is a process of its own: run_command loads      *)
(* cluster.json into a ClusterBridge, the command works on that copy       *)
(* (running ssh, docker and mysqlsh commands that take seconds to minutes) *)
(* and writes cluster.json back at its end.  env.pc is where each process  *)
(* is, env.config its copy of the secondaries; env.stale[p] tells that     *)
(* cluster.json was written by another process since p loaded it,          *)
(* env.lost that some process wrote cluster.json from a stale copy, and    *)
(* env.commands counts the commands started.                               *)
(***************************************************************************)
Procs == {1, 2}

\* the write of cluster.json by process p, seen by the other processes
Written(p) == [q \in Procs |-> IF q = p THEN env.stale[q]
                               ELSE env.stale[q] \/ env.pc[q] = "loaded"]

\* run_command: bridge = load_cluster(config_path)
LoadCluster(p) ==
    /\ env.pc[p] = "start"
    /\ env.commands < MaxCommands
    /\ env' = [env EXCEPT !.pc[p] = "loaded", !.config[p] = load(saved),
                          !.stale[p] = FALSE, !.commands = @ + 1]
    /\ UNCHANGED <<secondaries, saved, compose, use_custom_image, before,
                   calls, results>>

\* outcomes of the commands of add_remote_secondary when the machine either
\* does not answer or answers with MySQL up and every script succeeding
AddRemoteOutcomesConc(node) ==
    { o \in AddRemoteOutcomes(node) :
        o.ssh_accessible /\ o.mysql_active /\ o.configure /\ o.add }

\* cmd_add_secondary: bridge.add_remote_secondary on the copy of process p
CmdAddSecondary(p, host, ssh_user) ==
    /\ env.pc[p] = "loaded"
    /\ Len(env.config[p]) < MaxSecondaries
    /\ LET secs2 == add_secondary(env.config[p], host, ssh_user, REMOTE_MACHINE)
           node == secs2[Len(secs2)]
       IN \E o \in AddRemoteOutcomesConc(node) :
         LET r == AddRemoteRun(node, o)
         IN /\ secondaries' = secs2
            /\ saved' = IF r.success THEN save(secs2) ELSE saved
            /\ calls' = r.calls
            /\ results' = [op |-> "add_remote_secondary", success |-> r.success,
                           message |-> r.message, proc |-> p]
            /\ env' = [pc |-> [env.pc EXCEPT ![p] = "done"],
                       config |-> [env.config EXCEPT ![p] = secs2],
                       stale |-> IF r.success THEN Written(p) ELSE env.stale,
                       lost |-> env.lost \/ (r.success /\ env.stale[p]),
                       commands |-> env.commands]
            /\ before' = env.config[p]
            /\ UNCHANGED <<compose, use_custom_image>>

\* cmd_remove_secondary: bridge.remove_secondary on the copy of process p
CmdRemoveSecondary(p, node_id) ==
    LET secs == env.config[p]
        pos == FindNode(secs, node_id, 1)
        found == pos # 0
        node == secs[pos]
        secs2 == IF found THEN ListRemove(secs, node) ELSE secs
    IN /\ env.pc[p] = "loaded"
       /\ \E o \in IF found THEN RemoveOutcomes ELSE {"ok"} :
          \E rm_ok \in IF found /\ IsDocker(node) THEN BOOLEAN ELSE {TRUE} :
            /\ results' = [op |-> "remove_secondary", success |-> found,
                           message |-> IF found THEN "Removed node"
                                       ELSE "not found",
                           proc |-> p]
            /\ calls' = IF found
                        THEN <<Call("remove_instance", node_id, o = "ok")>> \o
                             (IF IsDocker(node)
                              THEN <<Call("docker_rm", node_id, rm_ok)>>
                              ELSE <<>>)
                        ELSE <<>>
            /\ secondaries' = secs2
            /\ saved' = IF found THEN save(secs2) ELSE saved
            /\ env' = [pc |-> [env.pc EXCEPT ![p] = "done"],
                       config |-> [env.config EXCEPT ![p] = secs2],
                       stale |-> IF found THEN Written(p) ELSE env.stale,
                       lost |-> env.lost \/ (found /\ env.stale[p]),
                       commands |-> env.commands]
       /\ before' = secs
       /\ UNCHANGED <<compose, use_custom_image>>

\* the process of the command exits; the next command is a new process
Exit(p) ==
    /\ env.pc[p] = "done"
    /\ env' = [env EXCEPT !.pc[p] = "start", !.config[p] = <<>>,
                          !.stale[p] = FALSE]
    /\ UNCHANGED <<secondaries, saved, compose, use_custom_image, before,
                   calls, results>>

\* a cluster as created with Container secondaries ("create --secondaries n"),
\* and no command running
InitConc ==
    \E n \in 0..MaxSecondaries :
      /\ secondaries = create_default_config(n, <<>>)
      /\ saved = save(secondaries)
      /\ compose = generate_docker_compose(secondaries,
                                           [exists |-> FALSE, services |-> {}])
      /\ use_custom_image = FALSE
      /\ before = <<>>
      /\ calls = <<>>
      /\ env = [pc |-> [p \in Procs |-> "start"],
                config |-> [p \in Procs |-> <<>>],
                stale |-> [p \in Procs |-> FALSE],
                lost |-> FALSE,
                commands |-> 0]
      /\ results = NoReport

NextConc ==
    \/ \E p \in Procs : LoadCluster(p)
    \/ \E p \in Procs, rh \in RemoteHosts : CmdAddSecondary(p, rh.host, rh.ssh_user)
    \/ \E p \in Procs, id \in NodeIds : CmdRemoveSecondary(p, id)
    \/ \E p \in Procs : Exit(p)

SpecConc == InitConc /\ [][NextConc]_vars

(***************************************************************************)
(* config.py: the persisted document, with every field                     *)
(*                                                                         *)
(* The operations above read six fields of a node; here a NodeConfig and a *)
(* ClusterConfig carry every field that config.py declares.  None is the   *)
(* string "None" for the optional string fields; an optional argument that *)
(* is not a string (server_id, primary) is None when it is left out.  A    *)
(* pathlib.Path is a record holding its normalised text.  In SpecPersist   *)
(* env is the ClusterConfig in memory, saved the document in cluster.json  *)
(* and before the configuration cluster.json was last written from.        *)
(***************************************************************************)
\* the defaults of the optional fields of the NodeConfig dataclass
NodeDefaults ==
    [host |-> "127.0.0.1", port |-> MySQLPort, mysql_root_password |-> "kamo",
     ssh_user |-> None, ssh_key_path |-> None, ssh_port |-> 22,
     container_name |-> None, docker_network |-> "mysql-cluster-net",
     docker_ip |-> None, data_dir |-> None, config_file |-> None,
     local_address |-> None, group_seeds |-> None]

\* NodeConfig(**kw): the dataclass constructor followed by __post_init__
NodeConfig(kw) ==
    LET given(f) == IF f \in DOMAIN kw THEN kw[f] ELSE NodeDefaults[f]
    IN [f \in DOMAIN NodeDefaults \cup DOMAIN kw \cup {"server_id"} |->
          CASE f = "server_id" ->
                 IF "server_id" \in DOMAIN kw THEN kw.server_id ELSE kw.node_id
            [] f = "container_name" ->
                 IF given(f) = None /\ kw.node_type = DOCKER_CONTAINER
                 THEN "mysql-node-" \o ToString(kw.node_id)
                 ELSE given(f)
            [] OTHER -> given(f)]

\* a to_dict that leaves the ssh key path out of the document
NodeConfig_to_dict_NoKeyPath(node) ==
    [node_id |-> node.node_id, hostname |-> node.hostname,
     role |-> EnumValue(node.role), node_type |-> EnumValue(node.node_type),
     host |-> node.host, port |-> node.port,
     mysql_root_password |-> node.mysql_root_password,
     ssh_user |-> node.ssh_user, ssh_key_path |-> None,
     ssh_port |-> node.ssh_port, container_name |-> node.container_name,
     docker_network |-> node.docker_network, docker_ip |-> node.docker_ip,
     server_id |-> node.server_id, data_dir |-> node.data_dir,
     config_file |-> node.config_file, local_address |-> node.local_address,
     group_seeds |-> node.group_seeds]

\* NodeConfig.to_dict, every key
NodeConfig_to_dict(node) ==
    [node_id |-> node.node_id, hostname |-> node.hostname,
     role |-> EnumValue(node.role), node_type |-> EnumValue(node.node_type),
     host |-> node.host, port |-> node.port,
     mysql_root_password |-> node.mysql_root_password,
     ssh_user |-> node.ssh_user, ssh_key_path |-> node.ssh_key_path,
     ssh_port |-> node.ssh_port, container_name |-> node.container_name,
     docker_network |-> node.docker_network, docker_ip |-> node.docker_ip,
     server_id |-> node.server_id, data_dir |-> node.data_dir,
     config_file |-> node.config_file, local_address |-> node.local_address,
     group_seeds |-> node.group_seeds]

\* NodeConfig.from_dict: the two enums are looked up, then cls(**data)
NodeConfig_from_dict(data) ==
    NodeConfig([data EXCEPT !.role = EnumMember(@), !.node_type = EnumMember(@)])

\* pathlib.Path(text): "./x" and "x" are the same path
PathOf(text) ==
    [path |-> CASE text = "./cluster" -> "cluster"
                [] text = "./" -> "."
                [] OTHER -> text]

\* str(path)
PathStr(p) == p.path

\* path / name
PathJoin(p, name) ==
    [path |-> IF p.path = "." THEN name ELSE p.path \o "/" \o name]

\* Path.cwd() of the process
Cwd == PathOf("/home/kamo")

\* the defaults of the fields of the ClusterConfig dataclass (primary: None)
ClusterDefaults ==
    [cluster_name |-> "lineairdb_cluster", secondaries |-> <<>>,
     docker_network_name |-> "mysql-cluster-net",
     docker_network_subnet |-> "172.20.0.0/16", docker_base_ip |-> "172.20.0",
     mysql_version |-> "8.0.43", mysql_root_password |-> "kamo",
     mysql_database |-> "testdb", mysql_user |-> "clusteruser",
     mysql_user_password |-> "kamo",
     base_dir |-> Cwd, config_dir |-> PathJoin(Cwd, "config"),
     data_dir |-> PathJoin(Cwd, "data"), logs_dir |-> PathJoin(Cwd, "logs"),
     mysql_bin_dir |-> None, mysqld_path |-> None,
     mysql_client_path |-> None, mysqlsh_path |-> None]

\* ClusterConfig(**kw)
ClusterConfig(kw) ==
    [f \in DOMAIN ClusterDefaults \cup DOMAIN kw |->
        IF f \in DOMAIN kw THEN kw[f] ELSE ClusterDefaults[f]]

\* "x or y" on an optional string
Falsy(v) == v = None \/ v = ""

\* the NodeConfig built by ClusterConfig.add_secondary, every field
NewNodeConfig(config, host, ssh_user, ssh_key_path, node_type) ==
    LET node_id == Len(config.secondaries) + FirstSecondaryId
        t == IF node_type = None
             THEN (IF ~Falsy(host) /\ ~Falsy(ssh_user)
                   THEN REMOTE_MACHINE ELSE DOCKER_CONTAINER)
             ELSE node_type
        container_name == "mysql-secondary-" \o ToString(node_id - 1)
    IN IF t = DOCKER_CONTAINER
       THEN NodeConfig([node_id |-> node_id, hostname |-> container_name,
                        role |-> SECONDARY, node_type |-> DOCKER_CONTAINER,
                        host |-> "127.0.0.1", port |-> DockerBasePort + node_id,
                        mysql_root_password |-> config.mysql_root_password,
                        container_name |-> container_name,
                        docker_network |-> config.docker_network_name,
                        docker_ip |-> config.docker_base_ip \o "." \o
                                      ToString(10 + node_id)])
       ELSE NodeConfig([node_id |-> node_id,
                        hostname |-> IF Falsy(host)
                                     THEN "secondary-" \o ToString(node_id - 1)
                                     ELSE host,
                        role |-> SECONDARY, node_type |-> REMOTE_MACHINE,
                        host |-> IF Falsy(host) THEN "127.0.0.1" ELSE host,
                        port |-> MySQLPort,
                        mysql_root_password |-> config.mysql_root_password,
                        ssh_user |-> ssh_user, ssh_key_path |-> ssh_key_path])

\* ClusterConfig.add_secondary on the whole configuration
ClusterConfig_add_secondary(config, host, ssh_user, ssh_key_path, node_type) ==
    [config EXCEPT !.secondaries =
        Append(@, NewNodeConfig(config, host, ssh_user, ssh_key_path, node_type))]

\* ClusterConfig.add_multiple_secondaries on the whole configuration; a
\* remote host given without a key has rh.get("ssh_key_path") = None
RECURSIVE ClusterConfig_add_multiple(_, _, _, _)
ClusterConfig_add_multiple(config, i, count, remote_hosts) ==
    IF i >= count THEN config
    ELSE IF i < Len(remote_hosts)
         THEN ClusterConfig_add_multiple(
                  ClusterConfig_add_secondary(config, remote_hosts[i + 1].host,
                      remote_hosts[i + 1].ssh_user,
                      remote_hosts[i + 1].ssh_key_path, REMOTE_MACHINE),
                  i + 1, count, remote_hosts)
         ELSE ClusterConfig_add_multiple(
                  ClusterConfig_add_secondary(config, None, None, None,
                                              DOCKER_CONTAINER),
                  i + 1, count, remote_hosts)

\* socket.gethostname()
Hostname == "db1"

\* create_default_config, the whole configuration
ClusterConfig_create_default(num_secondaries, primary_type, remote_hosts, base_dir) ==
    LET config == ClusterConfig([base_dir |-> base_dir,
                                 config_dir |-> PathJoin(base_dir, "config"),
                                 data_dir |-> PathJoin(base_dir, "data"),
                                 logs_dir |-> PathJoin(base_dir, "logs")])
        prim == NodeConfig([node_id |-> PrimaryId, hostname |-> Hostname,
                    role |-> PRIMARY, node_type |-> primary_type,
                    host |-> "127.0.0.1", port |-> MySQLPort,
                    mysql_root_password |-> config.mysql_root_password,
                    server_id |-> 1,
                    data_dir |-> IF primary_type = LOCAL_BINARY
                                 THEN PathStr(PathJoin(PathJoin(base_dir, "data"),
                                                       "primary"))
                                 ELSE None])
        with_primary == [f \in DOMAIN config \cup {"primary"} |->
                            IF f = "primary" THEN prim ELSE config[f]]
    IN ClusterConfig_add_multiple(with_primary, 0, num_secondaries, remote_hosts)

\* ClusterConfig.save: the document handed to json.dump
ClusterConfig_save(config) ==
    LET data ==
          [cluster_name |-> config.cluster_name,
           mysql_version |-> config.mysql_version,
           mysql_root_password |-> config.mysql_root_password,
           mysql_database |-> config.mysql_database,
           mysql_user |-> config.mysql_user,
           mysql_user_password |-> config.mysql_user_password,
           docker_network_name |-> config.docker_network_name,
           docker_network_subnet |-> config.docker_network_subnet,
           docker_base_ip |-> config.docker_base_ip,
           base_dir |-> PathStr(config.base_dir),
           config_dir |-> PathStr(config.config_dir),
           data_dir |-> PathStr(config.data_dir),
           logs_dir |-> PathStr(config.logs_dir),
           mysql_bin_dir |-> config.mysql_bin_dir,
           mysqld_path |-> config.mysqld_path,
           mysql_client_path |-> config.mysql_client_path,
           mysqlsh_path |-> config.mysqlsh_path,
           secondaries |-> [i \in 1..Len(config.secondaries) |->
                              NodeConfig_to_dict(config.secondaries[i])]]
    IN IF "primary" \in DOMAIN config
       THEN [f \in DOMAIN data \cup {"primary"} |->
               IF f = "primary" THEN NodeConfig_to_dict(config.primary)
               ELSE data[f]]
       ELSE data

\* data.get(key, default)
Get(data, key, default) == IF key \in DOMAIN data THEN data[key] ELSE default

\* ClusterConfig.load: the configuration built from the document
ClusterConfig_load(data) ==
    LET config == ClusterConfig(
          [cluster_name |-> Get(data, "cluster_name", "lineairdb_cluster"),
           mysql_version |-> Get(data, "mysql_version", "8.0.43"),
           mysql_root_password |-> Get(data, "mysql_root_password", "kamo"),
           mysql_database |-> Get(data, "mysql_database", "testdb"),
           mysql_user |-> Get(data, "mysql_user", "clusteruser"),
           mysql_user_password |-> Get(data, "mysql_user_password", "kamo"),
           docker_network_name |-> Get(data, "docker_network_name",
                                       "mysql-cluster-net"),
           docker_network_subnet |-> Get(data, "docker_network_subnet",
                                         "172.20.0.0/16"),
           docker_base_ip |-> Get(data, "docker_base_ip", "172.20.0"),
           base_dir |-> PathOf(Get(data, "base_dir", ".")),
           config_dir |-> PathOf(Get(data, "config_dir", "./config")),
           data_dir |-> PathOf(Get(data, "data_dir", "./data")),
           logs_dir |-> PathOf(Get(data, "logs_dir", "./logs")),
           mysql_bin_dir |-> Get(data, "mysql_bin_dir", None),
           mysqld_path |-> Get(data, "mysqld_path", None),
           mysql_client_path |-> Get(data, "mysql_client_path", None),
           mysqlsh_path |-> Get(data, "mysqlsh_path", None)])
        secs == Get(data, "secondaries", <<>>)
        loaded == [i \in 1..Len(secs) |-> NodeConfig_from_dict(secs[i])]
    IN IF "primary" \in DOMAIN data
       THEN [f \in DOMAIN config \cup {"primary"} |->
               CASE f = "primary" -> NodeConfig_from_dict(data.primary)
                 [] f = "secondaries" -> loaded
                 [] OTHER -> config[f]]
       ELSE [config EXCEPT !.secondaries = loaded]

(***************************************************************************)
(* Specification of save and load                                          *)
(***************************************************************************)
\* the remote hosts an operator may name: host:ssh_user[:ssh_key_path]
RemoteHostArgs ==
    { [host |-> "10.0.0.1", ssh_user |-> "mysql",
       ssh_key_path |-> "/home/kamo/.ssh/id_ed25519"],
      [host |-> "10.0.0.2", ssh_user |-> "mysql", ssh_key_path |-> None] }

\* the arguments of a setup: --cluster-name, --mysql-password,
\* --mysql-bin-dir, --base-dir, --primary-type
SetupArgs ==
    [name : {"lineairdb_cluster", "prod"}, pw : {"kamo", "s3cret"},
     bin : {None, "/opt/mysql/bin"}, dir : {"/srv/cluster", "./cluster"},
     pt : {LOCAL_SYSTEMCTL, LOCAL_BINARY}]

\* ClusterBridge.add_remote_secondary / scale growing the configuration in
\* memory by one node (external commands left out: they do not touch it)
GrowConfig(host, ssh_user, ssh_key_path, node_type) ==
    /\ Idle
    /\ Len(env.secondaries) < MaxSecondaries
    /\ env' = ClusterConfig_add_secondary(env, host, ssh_user, ssh_key_path,
                                          node_type)
    /\ results' = [op |-> "add_secondary", success |-> TRUE, message |-> ""]
    /\ UNCHANGED <<secondaries, saved, compose, use_custom_image, before, calls>>

\* ClusterBridge.save
SaveConfig ==
    /\ Idle
    /\ saved' = ClusterConfig_save(env)
    /\ before' = env
    /\ results' = [op |-> "save", success |-> TRUE, message |-> ""]
    /\ UNCHANGED <<secondaries, compose, use_custom_image, calls, env>>

\* ClusterBridge.load: the next command works on what it read
LoadConfig ==
    /\ Idle
    /\ env' = ClusterConfig_load(saved)
    /\ results' = [op |-> "load", success |-> TRUE, message |-> ""]
    /\ UNCHANGED <<secondaries, saved, compose, use_custom_image, before, calls>>

\* the caller is done with the report
ReturnPersist ==
    /\ ~Idle
    /\ results' = NoReport
    /\ UNCHANGED <<secondaries, saved, compose, use_custom_image, before,
                   calls, env>>

\* a cluster as set up: create_default_config, the settings taken from the
\* command line, and the first save
InitPersist ==
    \E n \in 0..(MaxSecondaries - 1), m \in 0..1, rh \in RemoteHostArgs,
       args \in SetupArgs :
      LET created == ClusterConfig_create_default(
                         n, args.pt, IF m = 0 THEN <<>> ELSE <<rh>>,
                         PathOf(args.dir))
          config == [created EXCEPT !.cluster_name = args.name,
                                    !.mysql_root_password = args.pw,
                                    !.mysql_bin_dir = args.bin]
      IN /\ env = config
         /\ saved = ClusterConfig_save(config)
         /\ before = config
         /\ secondaries = <<>>
         /\ compose = [exists |-> FALSE, services |-> {}]
         /\ use_custom_image = FALSE
         /\ calls = <<>>
         /\ results = NoReport

NextPersist ==
    \/ \E rh \in RemoteHostArgs :
         GrowConfig(rh.host, rh.ssh_user, rh.ssh_key_path, REMOTE_MACHINE)
    \/ GrowConfig(None, None, None, DOCKER_CONTAINER)
    \/ SaveConfig
    \/ LoadConfig
    \/ ReturnPersist

SpecPersist == InitPersist /\ [][NextPersist]_vars

(***************************************************************************)
(* cluster.py: setup                                                       *)
(***************************************************************************)
\* ClusterBridge.setup.  o tells, for each of its four try blocks, whether
\* the block ran without an exception (a block that is not run is TRUE)
setup ==
    /\ Idle
    /\ \E o \in [dirs : BOOLEAN, configs : BOOLEAN, compose : BOOLEAN,
                 save : BOOLEAN] :
         LET docker_nodes == get_docker_nodes(secondaries)
             early == ~o.dirs \/ ~o.configs
             steps == <<Step("create_directories", 0, o.dirs)>> \o
                      (IF o.dirs
                       THEN <<Step("generate_configs", 0, o.configs)>> ELSE <<>>) \o
                      (IF ~early /\ docker_nodes # <<>>
                       THEN <<Step("generate_docker_compose", 0, o.compose)>>
                       ELSE <<>>) \o
                      (IF ~early THEN <<Step("save_config", 0, o.save)>> ELSE <<>>)
         IN /\ ~o.dirs => o.configs
            /\ (early \/ docker_nodes = <<>>) => o.compose
            /\ early => o.save
            /\ results' = [op |-> "setup",
                           success |-> o.dirs /\ o.configs /\ o.compose,
                           message |-> "", steps |-> steps]
            /\ compose' = IF ~early /\ o.compose
                          THEN generate_docker_compose(secondaries, compose)
                          ELSE compose
            /\ saved' = IF ~early /\ o.save THEN save(secondaries) ELSE saved
    /\ calls' = <<>>
    /\ env' = [reachable |-> {}]
    /\ before' = secondaries
    /\ UNCHANGED <<secondaries, use_custom_image>>

\* a configuration as create_default_config returns it, before any setup:
\* no manifest and no cluster.json yet
InitSetup ==
    \E n \in 0..MaxSecondaries, rh \in RemoteHostLists, uci \in BOOLEAN :
      /\ secondaries = create_default_config(n, rh)
      /\ saved = <<>>
      /\ compose = [exists |-> FALSE, services |-> {}]
      /\ use_custom_image = uci
      /\ before = <<>>
      /\ calls = <<>>
      /\ env = [reachable |-> {}]
      /\ results = NoReport

NextSetup ==
    \/ setup
    \/ Return

SpecSetup == InitSetup /\ [][NextSetup]_vars

(***************************************************************************)
(* The replication group seen by scale and remove_secondary                *)
(*                                                                         *)
(* env.members is the set of instance addresses in the metadata of the     *)
(* InnoDB cluster: cluster.addInstance puts an address in, only            *)
(* cluster.removeInstance takes one out.  env.removal_failed remembers     *)
(* whether some removeInstance run did not succeed.                        *)
(***************************************************************************)
\* NodeConfig.get_connection_uri
get_connection_uri(node) ==
    "root:kamo@" \o node.host \o ":" \o ToString(node.port)

\* the addresses of the nodes of a topology
Uris(secs) == {get_connection_uri(secs[i]) : i \in 1..Len(secs)}

\* ClusterBridge.scale, with the group it acts on
GroupScale(target_secondaries) ==
    /\ Idle
    /\ \E o \in DockerOutcomes(use_custom_image) :
      LET remote_count == Len(get_remote_nodes(secondaries))
          docker_target == DockerTarget(target_secondaries, remote_count)
          r == scale_docker_nodes(secondaries, compose, use_custom_image,
                                  docker_target, o)
          adds == ScaleAddsToCluster(r.success, docker_target, r.secondaries)
          n == Len(r.secondaries)
      IN \E reachable \in ReachableSets(n) :
         \E conf \in IF adds THEN [1..n -> BOOLEAN] ELSE {<<>>} :
         \E add \in IF adds THEN [1..n -> BOOLEAN] ELSE {<<>>} :
           LET added == IF adds
                        THEN {get_connection_uri(r.secondaries[i]) :
                                i \in {j \in reachable : conf[j] /\ add[j]}}
                        ELSE {}
           IN /\ secondaries' = r.secondaries
              /\ compose' = r.compose
              /\ calls' = r.calls \o
                          (IF adds
                           THEN ScaleAddNodes(r.secondaries, 1, reachable, conf, add)
                           ELSE <<>>)
              /\ results' = [op |-> "scale", success |-> r.success,
                             message |-> r.message,
                             previous_count |-> Len(secondaries),
                             target_count |-> target_secondaries,
                             current_count |-> Len(r.secondaries)]
              /\ env' = [env EXCEPT !.members = @ \cup added]
              /\ before' = secondaries
              /\ UNCHANGED <<saved, use_custom_image>>

\* ClusterBridge.remove_secondary, with the group it acts on
GroupRemoveSecondary(node_id) ==
    LET pos == FindNode(secondaries, node_id, 1)
        found == pos # 0
        node == secondaries[pos]
        secs2 == ListRemove(secondaries, node)
    IN /\ Idle
       /\ \E o \in IF found THEN RemoveOutcomes ELSE {"ok"} :
          \E rm_ok \in IF found /\ IsDocker(node) THEN BOOLEAN ELSE {TRUE} :
            IF ~found
            THEN /\ results' = [op |-> "remove_secondary", success |-> FALSE,
                                message |-> "not found", node_id |-> node_id]
                 /\ calls' = <<>>
                 /\ UNCHANGED <<secondaries, saved, env>>
            ELSE /\ results' = [op |-> "remove_secondary", success |-> TRUE,
                                message |-> "Removed node", node_id |-> node_id]
                 /\ calls' = <<Call("remove_instance", node_id, o = "ok")>> \o
                             (IF IsDocker(node)
                              THEN <<Call("docker_rm", node_id, rm_ok)>>
                              ELSE <<>>)
                 /\ secondaries' = secs2
                 /\ saved' = save(secs2)
                 /\ env' = IF o = "ok"
                           THEN [env EXCEPT
                                   !.members = @ \ {get_connection_uri(node)}]
                           ELSE [env EXCEPT !.removal_failed = TRUE]
       /\ before' = secondaries
       /\ UNCHANGED <<compose, use_custom_image>>

\* the operation has returned to the command of cli.py that called it
ReturnGroup ==
    /\ ~Idle
    /\ before' = <<>>
    /\ calls' = <<>>
    /\ results' = NoReport
    /\ UNCHANGED <<secondaries, saved, compose, use_custom_image, env>>

\* a cluster created, set up and started with every secondary joined
InitGroup ==
    \E n \in 0..MaxSecondaries, rh \in RemoteHostLists :
      /\ secondaries = create_default_config(n, rh)
      /\ saved = save(secondaries)
      /\ compose = generate_docker_compose(secondaries,
                                           [exists |-> FALSE, services |-> {}])
      /\ use_custom_image = FALSE
      /\ before = <<>>
      /\ calls = <<>>
      /\ env = [members |-> Uris(secondaries), removal_failed |-> FALSE]
      /\ results = NoReport

NextGroup ==
    \/ \E t \in Targets : GroupScale(t)
    \/ \E id \in NodeIds : GroupRemoveSecondary(id)
    \/ ReturnGroup

SpecGroup == InitGroup /\ [][NextGroup]_vars

(***************************************************************************)
(* start, stop and restart, one statement at a time                        *)
(*                                                                         *)
(* env is the position of the running operation: op the operation, pc the  *)
(* statement it is at, i the position in the node list its loop is at,     *)
(* attempt the iterations its "for _ in range(30)" loop has made, success  *)
(* the success flag of its report.  Every external command returns (with   *)
(* its result or on its timeout); what it returns is not constrained.      *)
(***************************************************************************)
\* the position of an operation at statement pc
At(op, pc, i, success, replicate) ==
    [op |-> op, pc |-> pc, i |-> i, attempt |-> 0, success |-> success,
     replicate |-> replicate]

\* where ClusterBridge.stop returns to: its caller, or the start of restart
AfterStop(success) ==
    IF env.op = "restart"
    THEN At("restart", "start_primary", 0, TRUE, FALSE)
    ELSE At(env.op, "done", 0, success, FALSE)

\* a command of cli.py calls ClusterBridge.start, stop or restart
Begin(op, setup_replication) ==
    /\ env.pc = "idle"
    /\ env' = IF op = "start"
              THEN At("start", "start_primary", 0, TRUE, setup_replication)
              ELSE At(op, "stop_docker", 0, TRUE, FALSE)
    /\ UNCHANGED <<secondaries, saved, compose, use_custom_image, before,
                   calls, results>>

\* PrimaryNodeManager.start and stop up to their wait loop: the is_running
\* check and the systemctl command
PrimaryCommand ==
    /\ env.pc \in {"start_primary", "stop_primary"}
    /\ \E running \in BOOLEAN, ok \in BOOLEAN :
         env' = IF env.pc = "start_primary"
                THEN IF running
                     THEN At(env.op, "start_docker", 0, env.success, env.replicate)
                     ELSE IF ~ok
                     THEN At(env.op, "done", 0, FALSE, FALSE)
                     ELSE At(env.op, "start_primary_poll", 0, env.success,
                             env.replicate)
                ELSE IF ~running THEN AfterStop(env.success)
                     ELSE IF ~ok THEN AfterStop(FALSE)
                     ELSE At(env.op, "stop_primary_poll", 0, env.success,
                             env.replicate)
    /\ UNCHANGED <<secondaries, saved, compose, use_custom_image, before,
                   calls, results>>

\* SecondaryNodeManager.start_all: the containers, then one pass of
\* "for node in remote_nodes" up to the wait loop of start_remote_node
StartAllStep ==
    /\ env.pc \in {"start_docker", "start_remote"}
    /\ LET remote_nodes == get_remote_nodes(secondaries)
       IN \E ok \in BOOLEAN :
         env' = IF env.pc = "start_docker"
                THEN At(env.op, "start_remote", 1,
                        env.success /\ (get_docker_nodes(secondaries) = <<>> \/ ok),
                        env.replicate)
                ELSE IF env.i > Len(remote_nodes)
                THEN At(env.op, IF env.replicate THEN "replicate" ELSE "done", 0,
                        env.success, env.replicate)
                ELSE IF remote_nodes[env.i].ssh_user = None \/ ~ok
                THEN At(env.op, "start_remote", env.i + 1, FALSE, env.replicate)
                ELSE At(env.op, "start_remote_poll", env.i, env.success,
                        env.replicate)
    /\ UNCHANGED <<secondaries, saved, compose, use_custom_image, before,
                   calls, results>>

\* SecondaryNodeManager.stop_all: the containers, then one pass of
\* "for node in self.get_remote_nodes()"; ClusterBridge.stop does not read
\* its result
StopAllStep ==
    /\ env.pc \in {"stop_docker", "stop_remote"}
    /\ env' = IF env.pc = "stop_docker"
              THEN At(env.op, "stop_remote", 1, env.success, FALSE)
              ELSE IF env.i > Len(get_remote_nodes(secondaries))
              THEN At(env.op, "stop_primary", 0, env.success, FALSE)
              ELSE At(env.op, "stop_remote", env.i + 1, env.success, FALSE)
    /\ UNCHANGED <<secondaries, saved, compose, use_custom_image, before,
                   calls, results>>

\* setup_group_replication: create the cluster (position 0), then one pass
\* of "for node in self.config.secondaries"
ReplicationStep ==
    /\ env.pc = "replicate"
    /\ \E ok \in BOOLEAN :
         env' = IF env.i = 0 /\ ~ok
                THEN At(env.op, "done", 0, FALSE, FALSE)
                ELSE IF env.i > Len(secondaries)
                THEN At(env.op, "done", 0, env.success, FALSE)
                ELSE At(env.op, "replicate", env.i + 1,
                        env.success /\ (env.i = 0 \/ ok), TRUE)
    /\ UNCHANGED <<secondaries, saved, compose, use_custom_image, before,
                   calls, results>>

\* where a wait loop goes when it ends, answered or not
AfterPoll(answered) ==
    IF env.pc = "start_primary_poll"
    THEN IF answered
         THEN At(env.op, "start_docker", 0, env.success, env.replicate)
         ELSE At(env.op, "done", 0, FALSE, FALSE)
    ELSE IF env.pc = "stop_primary_poll"
    THEN AfterStop(env.success /\ answered)
    ELSE At(env.op, "start_remote", env.i + 1, env.success /\ answered,
            env.replicate)

\* a wait loop that issues the command again when its attempts run out
PollIteration_RetriesOnTimeout ==
    /\ env.pc \in {"start_primary_poll", "stop_primary_poll", "start_remote_poll"}
    /\ \E answered \in BOOLEAN :
         env' = IF answered THEN AfterPoll(TRUE)
                ELSE IF env.attempt + 1 >= PollAttempts
                THEN At(env.op,
                        IF env.pc = "start_primary_poll" THEN "start_primary"
                        ELSE IF env.pc = "stop_primary_poll" THEN "stop_primary"
                        ELSE "start_remote",
                        env.i, env.success, env.replicate)
                ELSE [env EXCEPT !.attempt = @ + 1]
    /\ UNCHANGED <<secondaries, saved, compose, use_custom_image, before,
                   calls, results>>

\* one iteration of "for _ in range(30): time.sleep(1); if <probe>: return"
\* of PrimaryNodeManager.start, PrimaryNodeManager.stop and
\* start_remote_node, and the return after the loop (attempt keeps the 30
\* iterations made until the next statement)
PollIteration ==
    /\ env.pc \in {"start_primary_poll", "stop_primary_poll", "start_remote_poll"}
    /\ \E answered \in BOOLEAN :
         env' = IF answered THEN AfterPoll(TRUE)
                ELSE IF env.attempt + 1 >= PollAttempts
                THEN [AfterPoll(FALSE) EXCEPT !.attempt = PollAttempts]
                ELSE [env EXCEPT !.attempt = @ + 1]
    /\ UNCHANGED <<secondaries, saved, compose, use_custom_image, before,
                   calls, results>>

\* the operation returns its report to the command of cli.py
ReturnPoll ==
    /\ env.pc = "done"
    /\ env' = At("none", "idle", 0, TRUE, FALSE)
    /\ UNCHANGED <<secondaries, saved, compose, use_custom_image, before,
                   calls, results>>

\* a cluster created and set up, no operation running
InitPoll ==
    \E n \in 0..MaxSecondaries, rh \in RemoteHostLists :
      /\ secondaries = create_default_config(n, rh)
      /\ saved = save(secondaries)
      /\ compose = generate_docker_compose(secondaries,
                                           [exists |-> FALSE, services |-> {}])
      /\ use_custom_image = FALSE
      /\ before = <<>>
      /\ calls = <<>>
      /\ env = At("none", "idle", 0, TRUE, FALSE)
      /\ results = NoReport

NextPoll ==
    \/ \E op \in {"start", "stop", "restart"}, sr \in BOOLEAN : Begin(op, sr)
    \/ PrimaryCommand
    \/ StartAllStep
    \/ StopAllStep
    \/ ReplicationStep
    \/ PollIteration
    \/ ReturnPoll

\* the interpreter goes on to the next statement of a running operation
SpecPoll ==
    /\ InitPoll
    /\ [][NextPoll]_vars
    /\ WF_vars(PrimaryCommand \/ StartAllStep \/ StopAllStep \/ ReplicationStep
               \/ PollIteration)

(***************************************************************************)
(* Properties                                                              *)
(***************************************************************************)
\* the last operation issued command c against node n
HasCall(c, n) == \E i \in 1..Len(calls) : calls[i].call = c /\ calls[i].node = n

\* ... and the command had outcome ok
HasCallOk(c, n, ok) ==
    \E i \in 1..Len(calls) : calls[i] = Call(c, n, ok)

DockerOf(secs) == SelectSeq(secs, IsDocker)
RemoteOf(secs) == SelectSeq(secs, IsRemote)
IsTopologyOp == results.op \in {"scale", "add_remote_secondary", "remove_secondary"}

\* C1: after any sequence of add_secondary, add_remote_secondary,
\* remove_secondary and scale, exactly one node has role Primary and the
\* secondary node_ids are pairwise distinct and different from the primary's
\* id (1).
C1_OnePrimaryUniqueIds ==
    LET all == get_all_nodes(secondaries)
    IN /\ Cardinality({i \in 1..Len(all) : all[i].role = PRIMARY}) = 1
       /\ \A i, j \in 1..Len(secondaries) :
            i # j => secondaries[i].node_id # secondaries[j].node_id
       /\ \A i \in 1..Len(secondaries) : secondaries[i].node_id # PrimaryId

\* C5: after a scale-up whose containers were added and started, scale has
\* issued configure-instance and add-instance for each newly added node that
\* is reachable, and for no other node.
C5_ScaleUpJoinsNewNodes ==
    (/\ results.op = "scale"
     /\ results.success
     /\ Len(DockerOf(secondaries)) > Len(DockerOf(before)))
    => \A i \in 1..Len(secondaries) :
         LET id == secondaries[i].node_id
             joins == i > Len(before) /\ i \in env.reachable
         IN /\ joins => /\ HasCall("configure_instance", id)
                        /\ HasCallOk("configure_instance", id, TRUE)
                             => HasCall("add_instance", id)
            /\ ~joins => /\ ~HasCall("configure_instance", id)
                         /\ ~HasCall("add_instance", id)

\* C6: whenever scale, add_remote_secondary or remove_secondary returns, the
\* persisted topology lists exactly the secondaries of the in-memory topology.
C6_PersistedAfterMutation ==
    IsTopologyOp => load(saved) = secondaries

\* C9: when scale decreases the number of Container secondaries, the ones
\* that remain are the leading prefix, in unchanged order, of the Container
\* secondaries present before the call.
C9_ScaleDownKeepsPrefix ==
    (results.op = "scale" /\ Len(DockerOf(secondaries)) < Len(DockerOf(before)))
    => DockerOf(secondaries)
         = SubSeq(DockerOf(before), 1, Len(DockerOf(secondaries)))

\* C10: for every integer target, after scale(target) returns success the
\* number of Container secondaries is max(0, target - r), r the number of
\* RemoteSSH secondaries at the time of the call.
C10_ScaleReachesTarget ==
    (results.op = "scale" /\ results.success)
    => LET r == Len(RemoteOf(before))
           wanted == results.target_count - r
       IN Len(DockerOf(secondaries)) = IF wanted > 0 THEN wanted ELSE 0

\* a successful scale below the number of remote machines, which are kept
C10_Witness ==
    /\ results.op = "scale"
    /\ results.success
    /\ results.target_count < Len(RemoteOf(before))
    /\ Len(DockerOf(before)) > 0
    /\ Len(DockerOf(secondaries)) = 0

\* the commands that start a secondary or converge the membership
SecondaryCommands ==
    {"image_inspect", "image_build", "compose_up", "ssh_start", "is_reachable",
     "configure_instance", "create_cluster", "add_instance", "cluster_status"}

\* the primary's start failed in the last operation: it was not running, and
\* the start command failed or no readiness poll succeeded
PrimaryStartFailed ==
    /\ HasCallOk("primary_is_running", PrimaryId, FALSE)
    /\ ~HasCallOk("primary_ready", PrimaryId, TRUE)

\* the readiness loop of the primary ran out
PrimaryPollExpired ==
    Cardinality({i \in 1..Len(calls) :
                   calls[i] = Call("primary_ready", PrimaryId, FALSE)}) = PollAttempts

\* C2: if the primary's start fails (also when the readiness poll expires:
\* "started but not responding"), start() returns success=false, the primary
\* result records the failure message, and no secondary start and no
\* membership step is attempted.
C2_PrimaryFailureAborts ==
    (results.op = "start" /\ PrimaryStartFailed)
    => /\ ~results.success
       /\ Len(results.primary) = 1
       /\ ~results.primary[1].success
       /\ results.primary[1].message
            \in {"Failed to start MySQL", "Timeout starting MySQL",
                 "Error starting MySQL", "MySQL started but not responding"}
       /\ PrimaryPollExpired
            => results.primary[1].message = "MySQL started but not responding"
       /\ results.secondaries = <<>>
       /\ results.replication = <<>>
       /\ \A i \in 1..Len(calls) : calls[i].call \notin SecondaryCommands

\* a start whose primary never answered within the 30 polls
C2_Witness ==
    /\ results.op = "start"
    /\ PrimaryPollExpired
    /\ Len(secondaries) > 0
    /\ ~results.success

\* the entries of results["secondaries"]["remote"]["nodes"] that report a
\* node: the entries carry the node's host
RemoteEntries(node) ==
    {k \in 1..Len(results.secondaries[1].remote.nodes) :
       results.secondaries[1].remote.nodes[k].host = node.host}

\* the start command of a secondary was issued
StartAttempted(node) ==
    IF IsDocker(node)
    THEN HasCall("compose_up", 0) /\ node.node_id \in compose.services
    ELSE HasCall("ssh_start", node.node_id)

\* the secondary was started and answered
StartObserved(node) ==
    IF IsDocker(node)
    THEN HasCallOk("compose_up", 0, TRUE)
    ELSE /\ HasCallOk("ssh_start", node.node_id, TRUE)
         /\ HasCallOk("is_reachable", node.node_id, TRUE)

SomeSecondaryFailed ==
    \E i \in 1..Len(secondaries) : ~StartObserved(secondaries[i])

ReplicationReports ==
    IF results.op = "setup_group_replication"
    THEN <<[success |-> results.success, steps |-> results.steps,
            cluster_status |-> results.cluster_status]>>
    ELSE IF results.op = "start" THEN results.replication
    ELSE <<>>

\* a configure or add-instance command for a secondary
IsSecondaryJoinCall(c) ==
    \/ c.call = "add_instance"
    \/ c.call = "configure_instance" /\ c.node # PrimaryId

\* C4: in setup_group_replication every secondary configure and every
\* add-instance call is issued only after the group create/fetch step on the
\* primary has returned success; if the primary configure step or the group
\* create/fetch step fails, the operation returns success=false with no
\* secondary configure, no add-instance call and no final status query.
C4_CreatePrecedesAdd ==
    (Len(ReplicationReports) = 1)
    => /\ \A i \in 1..Len(calls) :
            IsSecondaryJoinCall(calls[i])
            => \E j \in 1..(i - 1) : calls[j] = Call("create_cluster", PrimaryId, TRUE)
       /\ (\/ HasCallOk("configure_instance", PrimaryId, FALSE)
           \/ HasCallOk("create_cluster", PrimaryId, FALSE))
          => /\ ~ReplicationReports[1].success
             /\ ReplicationReports[1].cluster_status = <<>>
             /\ \A i \in 1..Len(calls) :
                  /\ ~IsSecondaryJoinCall(calls[i])
                  /\ calls[i].call # "cluster_status"

\* a secondary was added to the group after the group was created
C4_Witness ==
    /\ results.op = "setup_group_replication"
    /\ HasCallOk("create_cluster", PrimaryId, TRUE)
    /\ \E i \in 1..Len(secondaries) :
         HasCallOk("add_instance", secondaries[i].node_id, TRUE)

\* C7: the report of setup_group_replication has success=true if and only
\* if every step recorded in its steps list (configure_primary,
\* create_cluster, each configure_secondary_<id> and add_secondary_<id>)
\* succeeded.
C7_SuccessIffEveryStep ==
    results.op = "setup_group_replication"
    => (results.success
          <=> \A k \in 1..Len(results.steps) : results.steps[k].success)

\* C8: stop() returns root success=true only on full success: if the
\* Container group stop or any RemoteSSH node stop fails, the root success
\* is false and the stop command exits 1.
C8_StopFullSuccess ==
    (/\ results.op = "stop"
     /\ \/ ~results.secondaries[1].docker.success
        \/ \E k \in 1..Len(results.secondaries[1].remote.nodes) :
             ~results.secondaries[1].remote.nodes[k].success)
    => /\ ~results.success
       /\ cmd_stop(results) = 1

\* C11: scale never adds, removes, reorders or modifies a RemoteSSH
\* secondary: the subsequence of RemoteSSH secondaries is the same before and
\* after every scale call, whatever the target, whether it succeeds or fails.
C11_ScaleKeepsRemoteNodes ==
    results.op = "scale" => RemoteOf(secondaries) = RemoteOf(before)

\* a failed scale that removed containers from a topology with remote machines
C11_Witness ==
    /\ results.op = "scale"
    /\ ~results.success
    /\ RemoteOf(before) # <<>>
    /\ Len(DockerOf(secondaries)) < Len(DockerOf(before))
    /\ IsRemote(before[Len(before)])

\* C12: if the computed docker target equals the current number of Container
\* secondaries, scale is a no-op success: it returns success=true, leaves the
\* secondary sequence and the manifest unchanged and issues no container
\* start and no membership call.
C12_ScaleNoOp ==
    [][(/\ Idle
        /\ results'.op = "scale"
        /\ DockerTarget(results'.target_count, Len(RemoteOf(secondaries)))
             = Len(DockerOf(secondaries)))
       => /\ results'.success
          /\ secondaries' = secondaries
          /\ compose' = compose
          /\ calls' = <<>>]_vars

\* a scale to the present size of a topology whose manifest is out of date
C12_Witness ==
    /\ results.op = "scale"
    /\ DockerTarget(results.target_count, Len(RemoteOf(before)))
         = Len(DockerOf(before))
    /\ DockerOf(before) # <<>>
    /\ compose.services # Services(DockerOf(secondaries))
    /\ calls = <<>>

\* C13: when scale increases the number of Container secondaries, every
\* node it adds receives an id greater than the id of every secondary present
\* before the call, and the added nodes' ids are strictly increasing in the
\* order they were added.
C13_ScaleUpIdsIncrease ==
    (results.op = "scale" /\ Len(secondaries) > Len(before))
    => /\ SubSeq(secondaries, 1, Len(before)) = before
       /\ \A i \in (Len(before) + 1)..Len(secondaries) :
            \A j \in 1..(i - 1) :
              secondaries[j].node_id < secondaries[i].node_id

\* setup_group_replication ran and reached the secondary phase
GroupEstablished ==
    /\ Len(ReplicationReports) = 1
    /\ HasCallOk("create_cluster", PrimaryId, TRUE)

\* the positions of the status queries among the commands issued
StatusQueries == {i \in 1..Len(calls) : calls[i].call = "cluster_status"}

StepOfCall(c) ==
    Step(IF c.call = "add_instance" THEN "add_secondary" ELSE "configure_secondary",
         c.node, c.ok)

\* C15: in setup_group_replication a configure or add-instance failure on one
\* secondary is recorded in the report and does not prevent the attempt for
\* any later secondary: once the group is established, every secondary of the
\* topology gets a configure attempt (and, once configured, an add-instance
\* attempt).
C15_SecondariesIndependent ==
    GroupEstablished
    => /\ \A k \in 1..Len(secondaries) :
            /\ HasCall("configure_instance", secondaries[k].node_id)
            /\ HasCallOk("configure_instance", secondaries[k].node_id, TRUE)
                 => HasCall("add_instance", secondaries[k].node_id)
       /\ \A i \in 1..Len(calls) :
            IsSecondaryJoinCall(calls[i])
            => \E j \in 1..Len(ReplicationReports[1].steps) :
                 ReplicationReports[1].steps[j] = StepOfCall(calls[i])

\* the first secondary could not be configured, the second could not be
\* added, the third was still attempted
C15_Witness ==
    /\ results.op = "setup_group_replication"
    /\ GroupEstablished
    /\ Len(secondaries) = 3
    /\ HasCallOk("configure_instance", secondaries[1].node_id, FALSE)
    /\ HasCallOk("add_instance", secondaries[2].node_id, FALSE)
    /\ HasCallOk("add_instance", secondaries[3].node_id, TRUE)

\* C16: configure-instance is idempotent: invoked again against a node
\* that is configured, where the backend answers with an "already configured"
\* error, it yields success as it did the first time, for the primary, for
\* RemoteSSH secondaries and for Container secondaries.
C16_ConfigureIdempotent ==
    /\ env.configured \subseteq env.acknowledged
    /\ (results.op = "configure_instance" /\ results.answer \in AlreadyConfigured)
       => /\ results.success
          /\ results.node \in env.acknowledged

\* a second configure of a Container secondary, answered "already configured"
C16_Witness ==
    /\ results.op = "configure_instance"
    /\ results.node_type = DOCKER_CONTAINER
    /\ results.answer = "already configured"
    /\ results.node \in env.acknowledged
    /\ results.success

\* C17: an add-instance call for a node the backend reports as already a
\* member of the group is reported as success; any other backend error on
\* add-instance is reported as failure with the captured error text.
C17_AlreadyMemberIsSuccess ==
    results.op = "add_instance"
    => /\ results.answer \in AlreadyMember => results.success
       /\ results.answer \in {"error", "timeout"}
            => (~results.success /\ results.message = results.answer)

\* a second add-instance of a member, answered "already a member"
C17_Witness ==
    /\ results.op = "add_instance"
    /\ results.node \in env.members
    /\ results.answer = "already a member"
    /\ results.success

\* where remove_secondary found the node it was asked to remove (0: nowhere)
RemovedAt == FindNode(before, results.node_id, 1)

\* C18: for an id that exists in the topology, remove_secondary issues the
\* forced remove-instance call first and then, whatever the outcome of that
\* call, still deprovisions the node locally, removes it from the topology
\* and returns success.
C18_RemoveIsBestEffort ==
    (results.op = "remove_secondary" /\ RemovedAt # 0)
    => /\ results.success
       /\ Len(calls) >= 1
       /\ calls[1].call = "remove_instance"
       /\ calls[1].node = results.node_id
       /\ IsDocker(before[RemovedAt])
            => /\ Len(calls) = 2
               /\ calls[2].call = "docker_rm"
               /\ calls[2].node = results.node_id
       /\ secondaries = SubSeq(before, 1, RemovedAt - 1)
                          \o SubSeq(before, RemovedAt + 1, Len(before))
       /\ load(saved) = secondaries

\* a container removed although the remove-instance call failed
C18_Witness ==
    /\ results.op = "remove_secondary"
    /\ RemovedAt # 0
    /\ IsDocker(before[RemovedAt])
    /\ calls[1] = Call("remove_instance", results.node_id, FALSE)
    /\ Len(secondaries) = Len(before) - 1
    /\ results.success

\* the commands that start secondaries
SecondaryStartCommands ==
    {"image_inspect", "image_build", "compose_up", "ssh_start", "is_reachable"}

\* the commands of PrimaryNodeManager.start
PrimaryStartCommands == {"primary_is_running", "systemctl_start", "primary_ready"}

\* the position of the is_running() check that opens the primary's start
\* (in restart, the commands of stop() come before it)
StartPhaseBegin ==
    LET checks == {i \in 1..Len(calls) : calls[i].call = "primary_is_running"}
    IN CHOOSE i \in checks : \A j \in checks : j <= i

\* the primary's start has completed successfully by position i: it was
\* found running, or a readiness poll answered
PrimaryStartedBefore(i) ==
    \/ StartPhaseBegin < i /\ calls[StartPhaseBegin].ok
    \/ \E j \in (StartPhaseBegin + 1)..(i - 1) :
         calls[j] = Call("primary_ready", PrimaryId, TRUE)

\* C19: in every execution of start(), and of the start phase of restart(),
\* each secondary start action is issued strictly after the primary start
\* has completed successfully; no secondary start is issued before or
\* without a successful primary start in that operation.
C19_PrimaryStartsFirst ==
    results.op \in {"start", "restart"}
    => \A i \in 1..Len(calls) :
         calls[i].call \in SecondaryStartCommands
         => /\ PrimaryStartedBefore(i)
            /\ results.primary[1].success
            /\ \A j \in (i + 1)..Len(calls) :
                 calls[j].call \notin PrimaryStartCommands

\* a restart that stopped the primary, started it again, then the secondaries
C19_Witness ==
    /\ results.op = "restart"
    /\ HasCall("systemctl_stop", PrimaryId)
    /\ HasCallOk("primary_ready", PrimaryId, TRUE)
    /\ HasCall("compose_up", 0)
    /\ \E k \in 1..Len(secondaries) : HasCall("ssh_start", secondaries[k].node_id)

\* the positions at which stop() turns to the primary
PrimaryStopChecks ==
    {i \in 1..Len(calls) : calls[i].call = "primary_is_running"}

ReplicationCommands ==
    {"configure_instance", "create_cluster", "add_instance", "cluster_status"}

\* the commands of stop()
StopCommands == {"compose_down", "ssh_stop", "systemctl_stop", "primary_stopped"}

\* C21: restart() performs stop, then start with membership convergence
\* disabled: during a restart no configure-instance, group create/fetch,
\* add-instance or status-query call is issued, and the returned report has
\* no replication part.
C21_RestartSkipsReplication ==
    results.op = "restart"
    => /\ \A i \in 1..Len(calls) :
            /\ calls[i].call \notin ReplicationCommands
            /\ calls[i].call \in StopCommands => i < StartPhaseBegin
            /\ calls[i].call \in SecondaryStartCommands => i > StartPhaseBegin
       /\ results.replication = <<>>
       /\ Len(results.primary) = 1

\* a restart that stopped and started the primary and every secondary
C21_Witness ==
    /\ results.op = "restart"
    /\ results.success
    /\ Len(secondaries) = MaxSecondaries
    /\ HasCallOk("systemctl_stop", PrimaryId, TRUE)
    /\ HasCallOk("systemctl_start", PrimaryId, TRUE)
    /\ HasCall("compose_up", 0)

\* C22: remove_secondary called with an id that no secondary has returns a
\* not-found failure and leaves the topology unchanged, without issuing a
\* remove-instance call, deprovisioning any container, or rewriting the
\* persisted topology.
C22_RemoveUnknownId ==
    [][(/\ Idle
        /\ results'.op = "remove_secondary"
        /\ \A i \in 1..Len(secondaries) :
             secondaries[i].node_id # results'.node_id)
       => /\ ~results'.success
          /\ results'.message = "not found"
          /\ secondaries' = secondaries
          /\ saved' = saved
          /\ compose' = compose
          /\ calls' = <<>>]_vars

\* an unknown id was refused while cluster.json lagged behind the topology
C22_Witness ==
    /\ results.op = "remove_secondary"
    /\ ~results.success
    /\ secondaries # <<>>
    /\ secondaries = before
    /\ load(saved) # secondaries
    /\ calls = <<>>

\* C29: scale's returned report always contains the previous secondary
\* count, the target count that was requested, and the final secondary
\* count, both when the operation succeeds and when it partially fails.
C29_ScaleReportsCounts ==
    results.op = "scale"
    => /\ {"previous_count", "target_count", "current_count"}
            \subseteq DOMAIN results
       /\ results.previous_count = Len(before)
       /\ results.target_count \in Targets
       /\ results.current_count = Len(secondaries)
       /\ (results.success /\ results.target_count >= 0
             /\ get_remote_nodes(before) = <<>>)
          => results.current_count = results.target_count

\* a scale that failed after it had changed the topology: the report gives
\* the count before and the different count after
C29_Witness ==
    /\ results.op = "scale"
    /\ ~results.success
    /\ results.previous_count = Len(before)
    /\ results.current_count = Len(secondaries)
    /\ results.current_count # results.previous_count
    /\ HasCallOk("compose_up", 0, FALSE)

\* a scale that succeeded and changed the count
C29_WitnessSuccess ==
    /\ results.op = "scale"
    /\ results.success
    /\ results.current_count # results.previous_count

\* C24: node_ids along the secondary sequence are strictly increasing in
\* every topology reachable through add_secondary, add_remote_secondary,
\* remove_secondary and scale.
C24_IdsStrictlyIncreasing ==
    \A i \in 1..Len(secondaries) : \A j \in 1..Len(secondaries) :
        i < j => secondaries[i].node_id < secondaries[j].node_id

\* C23: for every topology, add_secondary followed by remove_secondary with
\* the id of the returned node restores the secondary count that held before
\* the add.
C23_AddRemoveRestoresCount ==
    results.op = "add_then_remove"
    => /\ results.success
       /\ Len(secondaries) = Len(before)
       /\ HasCall("remove_instance", results.node_id)

\* the round trip was made on a topology that already held a node with the
\* id the new node was given
C23_Witness ==
    /\ results.op = "add_then_remove"
    /\ results.success
    /\ before # <<>>
    /\ Len(secondaries) = Len(before)
    /\ \E i \in 1..Len(before) : before[i].node_id = results.node_id

\* the round trip on a topology without that id gives the topology back
C23_WitnessFresh ==
    /\ results.op = "add_then_remove"
    /\ Len(before) = MaxSecondaries
    /\ secondaries = before

\* the kind-specific start and stop actions, and the polls that follow them
StartActions == {"systemctl_start", "ssh_start", "compose_up"}
StopActions == {"systemctl_stop", "ssh_stop", "compose_down"}
ReadinessPolls == {"primary_ready", "is_reachable"}
StoppedPolls == {"primary_stopped"}

\* the last operation issued a command of the set cs
Issued(cs) == \E i \in 1..Len(calls) : calls[i].call \in cs

\* a poll of the set ps answered yes / the number of polls of ps made
Observed(ps) == \E i \in 1..Len(calls) : calls[i].call \in ps /\ calls[i].ok
PollCount(ps) == Cardinality({i \in 1..Len(calls) : calls[i].call \in ps})

\* C26: for every deployment kind, start on a node that is already running
\* is a no-op success: it returns success without issuing the kind-specific
\* start action.
C26_StartOnRunningIsNoOp ==
    (results.op = "node_start" /\ env.was_running)
    => results.success /\ ~Issued(StartActions)

\* C27: for every deployment kind, when start issues the start action it
\* reports success only if some readiness poll observed the node both
\* running and reachable; if the 30 polls elapse without both holding, it
\* returns failure with the message 'started but not responding'.
C27_StartSuccessWasObserved ==
    (results.op = "node_start" /\ Issued(StartActions))
    => /\ results.success => Observed(ReadinessPolls)
       /\ (PollCount(ReadinessPolls) = PollAttempts /\ ~Observed(ReadinessPolls))
          => (~results.success
              /\ results.message = "MySQL started but not responding")

\* C28: stop is symmetric to start for every deployment kind: after issuing
\* the stop action it polls until the node is observed NOT running, with the
\* same bound (30), reports success only once the node was observed not
\* running, and reports failure if the bound is exceeded.
C28_StopSuccessWasObserved ==
    (results.op = "node_stop" /\ Issued(StopActions))
    => /\ results.success => Observed(StoppedPolls)
       /\ (PollCount(StoppedPolls) = PollAttempts /\ ~Observed(StoppedPolls))
          => ~results.success

\* the processes that hold a loaded copy of the topology they are about to
\* change and write back
InMutation == {p \in Procs : env.pc[p] = "loaded"}

\* C30: single-writer discipline on the topology: when two topology-mutating
\* operations are invoked concurrently on the same topology, at most one of
\* them is inside its mutation at a time, so no interleaving produces a lost
\* update in the persisted topology or two secondaries with the same id.
C30_SingleWriter ==
    /\ Cardinality(InMutation) <= 1
    /\ ~env.lost
    /\ \A p \in Procs : ~env.stale[p]

\* the update of one command is lost: both commands reported success, and
\* cluster.json holds only what the second one wrote
C30_LostUpdate ==
    /\ env.lost
    /\ \A p \in Procs : env.pc[p] = "done"
    /\ results.success
    /\ \E p \in Procs : env.config[p] # load(saved)

\* the settings of a ClusterConfig: every field but the nodes
SettingFields ==
    {"cluster_name", "docker_network_name", "docker_network_subnet",
     "docker_base_ip", "mysql_version", "mysql_root_password",
     "mysql_database", "mysql_user", "mysql_user_password", "base_dir",
     "config_dir", "data_dir", "logs_dir", "mysql_bin_dir", "mysqld_path",
     "mysql_client_path", "mysqlsh_path"}

\* the fields of a NodeConfig
NodeFields ==
    {"node_id", "hostname", "role", "node_type", "host", "port",
     "mysql_root_password", "ssh_user", "ssh_key_path", "ssh_port",
     "container_name", "docker_network", "docker_ip", "server_id",
     "data_dir", "config_file", "local_address", "group_seeds"}

\* two nodes agree on every field
SameNode(a, b) ==
    /\ DOMAIN a = NodeFields
    /\ DOMAIN b = NodeFields
    /\ \A f \in NodeFields : a[f] = b[f]

\* C25: the persisted topology round-trips losslessly: load(save(x)) equals
\* x on the cluster name, the shared settings and every field of every node
\* (host, credential, container network address, ssh key path, ids, roles,
\* kinds).  before is the configuration x cluster.json was written from, env
\* the configuration read back.
C25_SaveLoadRoundTrip ==
    /\ results.op = "load"
       => /\ \A f \in SettingFields : env[f] = before[f]
          /\ SameNode(env.primary, before.primary)
          /\ Len(env.secondaries) = Len(before.secondaries)
          /\ \A i \in 1..Len(before.secondaries) :
               SameNode(env.secondaries[i], before.secondaries[i])
          /\ env = before
    /\ ClusterConfig_load(ClusterConfig_save(env)) = env

\* a configuration read back that has a RemoteSSH secondary with a key path
\* and a Container secondary with its network address, and settings that
\* are not the defaults
C25_Witness ==
    /\ results.op = "load"
    /\ env = before
    /\ env.cluster_name = "prod"
    /\ env.mysql_root_password = "s3cret"
    /\ env.base_dir = PathOf("./cluster")
    /\ env.primary.node_type = LOCAL_BINARY
    /\ \E i \in 1..Len(env.secondaries) :
         /\ env.secondaries[i].node_type = REMOTE_MACHINE
         /\ env.secondaries[i].ssh_key_path = "/home/kamo/.ssh/id_ed25519"
    /\ \E i \in 1..Len(env.secondaries) :
         /\ env.secondaries[i].node_type = DOCKER_CONTAINER
         /\ env.secondaries[i].docker_ip = "172.20.0.13"

\* C31: if add_remote_secondary returns failure (host unreachable, MySQL
\* cannot be started, configure fails, or add-instance fails), the in-memory
\* secondary sequence is the same as before the call: the node it
\* tentatively appended is not left in the topology.
C31_FailedAddLeavesNoNode ==
    (results.op = "add_remote_secondary" /\ ~results.success)
    => secondaries = before

\* C32 as stated: if scale returns success=false, the secondary sequence is
\* the same as before the call (nodes added or removed are rolled back).
C32_FailedScaleRollsBack ==
    (results.op = "scale" /\ ~results.success) => secondaries = before

\* C32, amended: if scale returns success=false (the Container (re)start
\* failed), the nodes the scale added or removed stay changed in the
\* in-memory topology: the Container count is the docker target, the
\* RemoteSSH secondaries are those of before, and current_count reports the
\* resulting count.
C32_FailedScaleKeepsChange ==
    (results.op = "scale" /\ ~results.success)
    => /\ Len(DockerOf(secondaries))
            = DockerTarget(results.target_count, Len(RemoteOf(before)))
       /\ RemoteOf(secondaries) = RemoteOf(before)
       /\ Len(DockerOf(secondaries)) # Len(DockerOf(before))
       /\ results.current_count = Len(secondaries)
       /\ (HasCallOk("compose_up", 0, FALSE) \/ HasCallOk("image_build", 0, FALSE))

\* a scale down whose docker-compose run failed after a node had been
\* removed from the topology
C32_Witness ==
    /\ results.op = "scale"
    /\ ~results.success
    /\ Len(secondaries) < Len(before)
    /\ HasCallOk("compose_up", 0, FALSE)

\* C33: in every reachable topology, remove_secondary(id) for an existing id
\* removes exactly one node, the node removed is the one that was assigned
\* that id, and afterwards no secondary with that id remains.
C33_RemoveLeavesNoSuchId ==
    (results.op = "remove_secondary" /\ results.success)
    => /\ Len(secondaries) = Len(before) - 1
       /\ secondaries = ListRemove(before,
                                   before[FindNode(before, results.node_id, 1)])
       /\ \A i \in 1..Len(secondaries) :
            secondaries[i].node_id # results.node_id

\* C35: after every completed scale or remove_secondary operation, the
\* generated Container deployment manifest lists exactly the Container
\* secondaries currently in the topology, including when the last Container
\* secondary has been removed.
C35_ManifestMatchesTopology ==
    results.op \in {"scale", "remove_secondary"}
    => (IF compose.exists THEN compose.services ELSE {})
         = ContainerIds(secondaries)

\* a stop command of the stop phase failed
StopPhaseFailed ==
    \E i \in 1..Len(calls) :
        /\ calls[i].call \in StopActions
        /\ ~calls[i].ok

\* C36: restart() reports the failure of its stop phase: if stopping the
\* primary (or any secondary) fails during restart, the root success of the
\* report that restart returns is false.
C36_RestartReportsStopFailure ==
    (results.op = "restart" /\ StopPhaseFailed) => ~results.success

\* C38: within setup_group_replication and add_remote_secondary, an
\* add-instance call for a secondary is issued only after that same
\* secondary's configure-instance step has returned success in the same
\* operation; a secondary whose configure failed is never passed to
\* add-instance.
C38_AddOnlyAfterConfigure ==
    results.op \in {"setup_group_replication", "add_remote_secondary"}
    => \A i \in 1..Len(calls) :
         /\ calls[i].call = "add_instance"
            => /\ i > 1
               /\ calls[i - 1] = Call("configure_instance", calls[i].node, TRUE)
         /\ (calls[i].call = "configure_instance" /\ ~calls[i].ok /\ i < Len(calls))
            => calls[i + 1].call # "add_instance"

\* a convergence in which one secondary's configure failed and another
\* secondary was configured and passed to add-instance
C38_Witness ==
    /\ results.op = "setup_group_replication"
    /\ \E i \in 1..Len(calls) :
         /\ calls[i].call = "configure_instance"
         /\ calls[i].node # PrimaryId
         /\ ~calls[i].ok
         /\ ~HasCall("add_instance", calls[i].node)
    /\ \E i \in 1..Len(calls) : calls[i].call = "add_instance"

\* an add_remote_secondary that stopped at the failed configure
C38_WitnessRemote ==
    /\ results.op = "add_remote_secondary"
    /\ results.message = "Cannot configure MySQL"
    /\ ~(\E i \in 1..Len(calls) : calls[i].call = "add_instance")

\* C37: setup() returns success=true only if every step recorded in its
\* steps list succeeded (create_directories, generate_configs,
\* generate_docker_compose, save_config); in particular a failed save of the
\* topology makes the returned success false.
C37_SetupSuccessIffEveryStep ==
    (results.op = "setup" /\ results.success)
    => \A i \in 1..Len(results.steps) : results.steps[i].success

\* C34: no stale group members.  As long as every remove-instance run that
\* was issued has succeeded, after any completed remove_secondary or scale
\* every member of the replication group is a node of the topology.
C34_NoStaleMembers ==
    (results.op \in {"scale", "remove_secondary"} /\ ~env.removal_failed)
    => env.members \subseteq Uris(secondaries)

====
